---------------------------- MODULE Spec2Model ----------------------------
(***************************************************************************)
(* Service worker of plugin_sw_sfra: the placeholder scanner, the          *)
(* streaming response rewriter, the keyed cache with its trigger           *)
(* invalidation, and the fetch dispatch.                                   *)
(*                                                                         *)
(* Bytes are records [c |-> character, o |-> origin].  The character is    *)
(* what the code compares; the origin is a history value (the place of the *)
(* byte in the document) that the code does not have and never reads.      *)
(* All indices into byte arrays are 0-based, as in the source.             *)
(***************************************************************************)
EXTENDS Integers, Sequences, FiniteSets, TLC

(***************************************************************************)
(* Program constants                                                       *)
(***************************************************************************)
PLACEHOLDER_PREFIX == <<"$", "s", "w">>
LAST_BYTES_COUNT == 20

(***************************************************************************)
(* JavaScript values                                                       *)
(***************************************************************************)
Undefined == "undefined"
Null == [isNull |-> TRUE, v |-> <<>>]
Some(x) == [isNull |-> FALSE, v |-> x]

\* bytes[i] of a Uint8Array read from the network or a cache
ValAt(bytes, i) == IF i >= 0 /\ i < Len(bytes) THEN bytes[i + 1].c ELSE Undefined
\* bytes[i] of an encoded placeholder or of the encoded prefix
PAt(p, i) == IF i >= 0 /\ i < Len(p) THEN p[i + 1] ELSE Undefined
\* Uint8Array.prototype.slice(from, to)
Slice(bytes, from, to) ==
    LET n == Len(bytes)
        rel(x) == IF x < 0 THEN (IF n + x < 0 THEN 0 ELSE n + x) ELSE (IF x > n THEN n ELSE x)
        f == rel(from)
        t == rel(to)
    IN  IF f >= t THEN <<>> ELSE SubSeq(bytes, f + 1, t)
\* Array.prototype.splice(k, 1)
Splice(arr, k) == [j \in 1..(Len(arr) - 1) |-> IF j <= k THEN arr[j] ELSE arr[j + 1]]
Chars(bytes) == [j \in 1..Len(bytes) |-> bytes[j].c]

(***************************************************************************)
(* encodePlaceholderConfigs: the bytes of each placeholder after '$sw'     *)
(***************************************************************************)
StartsWithPrefix(placeholder) ==
    /\ Len(placeholder) >= Len(PLACEHOLDER_PREFIX)
    /\ SubSeq(placeholder, 1, Len(PLACEHOLDER_PREFIX)) = PLACEHOLDER_PREFIX
encodePlaceholderConfigs(cachedParts) ==
    [ prefixBytes |-> PLACEHOLDER_PREFIX,
      configs |-> [k \in 1..Len(cachedParts) |->
          [ url |-> cachedParts[k].url,
            cacheSuffix |-> cachedParts[k].cacheSuffix,
            placeholder |-> cachedParts[k].placeholder,
            placeholderBytes |->
                SubSeq(cachedParts[k].placeholder,
                       Len(PLACEHOLDER_PREFIX) + 1, Len(cachedParts[k].placeholder)) ]] ]

(***************************************************************************)
(* findMatchingPlaceholder                                                 *)
(***************************************************************************)
NoMatch == [found |-> FALSE, config |-> 0, length |-> 0, start |-> 0, end |-> 0]

InitCandidates(bytes, i, placeholderConfigs) ==
    [k \in 1..Len(placeholderConfigs) |->
        [ config |-> k,
          bytes |-> placeholderConfigs[k].placeholderBytes,
          length |-> Len(placeholderConfigs[k].placeholderBytes),
          matched |-> PAt(placeholderConfigs[k].placeholderBytes, 0) = ValAt(bytes, i),
          finished |-> Len(placeholderConfigs[k].placeholderBytes) = 1 ]]

\* one candidate of the for loop, lines 41-47: its matched and finished flags after byte i
StepCandidate(c, idx, bytes, i) ==
    [c EXCEPT !.matched = IF idx < c.length
                          THEN c.matched /\ PAt(c.bytes, idx) = ValAt(bytes, i)
                          ELSE c.matched,
              !.finished = IF idx = c.length - 1 THEN TRUE ELSE c.finished]
\* lines 49-54: the flags of the loop, and the candidate kept or spliced out
KeepOrSplice(st, k, c) ==
    [ candidates |-> IF c.matched THEN [st.candidates EXCEPT ![k + 1] = c]
                     ELSE Splice(st.candidates, k),
      allFinished |-> st.allFinished /\ c.finished,
      found |-> st.found \/ (c.finished /\ c.matched) ]
\* the for loop: lines 40-55
RECURSIVE CandidateLoop(_, _, _, _, _)
CandidateLoop(st, k, idx, bytes, i) ==
    IF k < 0 THEN st
    ELSE CandidateLoop(KeepOrSplice(st, k, StepCandidate(st.candidates[k + 1], idx, bytes, i)),
                       k - 1, idx, bytes, i)

\* the while loop: lines 37-59
RECURSIVE MatchLoop(_, _, _, _)
MatchLoop(st, i, idx, bytes) ==
    IF i < Len(bytes) /\ Len(st.candidates) > 0 /\ ~st.allFinished /\ ~st.found
    THEN MatchLoop(CandidateLoop([st EXCEPT !.allFinished = TRUE],
                                 Len(st.candidates) - 1, idx, bytes, i),
                   i + 1, idx + 1, bytes)
    ELSE [candidates |-> st.candidates, i |-> i, found |-> st.found]

\* lines 61-67: the first candidate left, with the positions computed from i
MatchData(r, prefixBytes) ==
    IF r.found
    THEN [ found |-> TRUE, config |-> r.candidates[1].config,
           length |-> r.candidates[1].length,
           start |-> (r.i - 1) - r.candidates[1].length - Len(prefixBytes) + 1,
           end |-> r.i - 1 ]
    ELSE NoMatch

findMatchingPlaceholder(bytes, startIndex, prefixBytes, placeholderConfigs) ==
    MatchData(MatchLoop([ candidates |-> InitCandidates(bytes, startIndex, placeholderConfigs),
                          allFinished |-> FALSE, found |-> FALSE ],
                        startIndex + 1, 1, bytes),
              prefixBytes)

(***************************************************************************)
(* extractPlaceholderChunk                                                 *)
(***************************************************************************)
\* the inner while loop: lines 99-106
RECURSIVE PrefixLoop(_, _, _, _)
PrefixLoop(bytes, prefixBytes, pointer, prefixIdx) ==
    IF /\ ValAt(bytes, pointer) = PAt(prefixBytes, prefixIdx)
       /\ prefixIdx < Len(prefixBytes)
       /\ pointer < Len(bytes)
    THEN PrefixLoop(bytes, prefixBytes, pointer + 1, prefixIdx + 1)
    ELSE [pointer |-> pointer, prefixIdx |-> prefixIdx]

\* lines 108-110: the candidates are tried when the whole prefix was read
TryMatch(bytes, prefixBytes, placeholderConfigs, p) ==
    IF p.prefixIdx = Len(prefixBytes) /\ p.pointer < Len(bytes)
    THEN findMatchingPlaceholder(bytes, p.pointer, prefixBytes, placeholderConfigs)
    ELSE NoMatch

\* the outer while loop: lines 98-114
RECURSIVE ScanLoop(_, _, _, _)
RECURSIVE ScanOn(_, _, _, _, _)
\* lines 112-113: prefixIdx = 0; pointer++
ScanOn(bytes, prefixBytes, placeholderConfigs, p, found) ==
    IF found.found THEN found
    ELSE ScanLoop(bytes, prefixBytes, placeholderConfigs, p.pointer + 1)
ScanFrom(bytes, prefixBytes, placeholderConfigs, p) ==
    ScanOn(bytes, prefixBytes, placeholderConfigs, p,
           TryMatch(bytes, prefixBytes, placeholderConfigs, p))
ScanLoop(bytes, prefixBytes, placeholderConfigs, pointer) ==
    IF pointer < Len(bytes)
    THEN ScanFrom(bytes, prefixBytes, placeholderConfigs,
                  PrefixLoop(bytes, prefixBytes, pointer, 0))
    ELSE NoMatch

\* lines 116-129: the chunk cut at the match, or its tail kept back
SplitChunk_NoWindow(bytes, found, isFinal) ==
    IF found.found
    THEN [ found |-> found,
           before |-> Some(Slice(bytes, 0, found.start)),
           after |-> Some(Slice(bytes, found.end + 1, Len(bytes))),
           leftover |-> Null ]
    ELSE IF ~isFinal
    THEN [ found |-> found, before |-> Null, after |-> Null, leftover |-> Some(bytes) ]
    ELSE [ found |-> found, before |-> Some(bytes), after |-> Null, leftover |-> Null ]
SplitChunk(bytes, found, isFinal) ==
    IF found.found
    THEN [ found |-> found,
           before |-> Some(Slice(bytes, 0, found.start)),
           after |-> Some(Slice(bytes, found.end + 1, Len(bytes))),
           leftover |-> Null ]
    ELSE IF ~isFinal
    THEN IF Len(bytes) > LAST_BYTES_COUNT
         THEN [ found |-> found,
                before |-> Some(Slice(bytes, 0, Len(bytes) - LAST_BYTES_COUNT)),
                after |-> Null,
                leftover |-> Some(Slice(bytes, Len(bytes) - LAST_BYTES_COUNT, Len(bytes))) ]
         ELSE [ found |-> found, before |-> Null, after |-> Null, leftover |-> Some(bytes) ]
    ELSE [ found |-> found, before |-> Some(bytes), after |-> Null, leftover |-> Null ]

extractPlaceholderChunk(bytes, prefixBytes, placeholderConfigs, isFinal) ==
    SplitChunk(bytes, ScanLoop(bytes, prefixBytes, placeholderConfigs, 0), isFinal)

(***************************************************************************)
(* Strings (URLs, cache keys) are sequences of atoms: a separator or a     *)
(* word.  indexOf is the search for a contiguous run of atoms.             *)
(***************************************************************************)
\* String.prototype.indexOf, 0-based, -1 when absent
IndexOf(str, sub) ==
    LET hits == {p \in 0..(Len(str) - Len(sub)) : SubSeq(str, p + 1, p + Len(sub)) = sub}
    IN  IF hits = {} THEN -1 ELSE CHOOSE p \in hits : \A q \in hits : p <= q

Separators == {"/", ".", "?", "=", "Sites-", "-Site/", "https://shop", "/on/demandware.store/",
               "/on/demandware.static/"}
\* [\w\-_]+ : one word of letters, digits, '-' and '_'
IsSiteWord(a) == a \notin Separators
\* [\w]{2,7} : a word of two to seven letters, digits or '_'
LocaleWords == {"en", "fr", "en_US", "default"}
IsLocaleWord(a) == a \in LocaleWords

\* str.replace(/(Sites-[\w\-_]+-Site\/[\w]{2,7}\/)/, ''): the first site/locale segment removed
SiteLocaleAt(str, p) ==
    /\ p + 4 <= Len(str)
    /\ str[p] = "Sites-"
    /\ IsSiteWord(str[p + 1])
    /\ str[p + 2] = "-Site/"
    /\ IsLocaleWord(str[p + 3])
    /\ str[p + 4] = "/"
StripSiteLocale(str) ==
    LET hits == {p \in 1..Len(str) : SiteLocaleAt(str, p)}
    IN  IF hits = {} THEN str
        ELSE LET p == CHOOSE q \in hits : \A r \in hits : q <= r
             IN  SubSeq(str, 1, p - 1) \o SubSeq(str, p + 5, Len(str))

(***************************************************************************)
(* Cache storage: caches maps a cache name to a cache, a cache maps the    *)
(* URL of a stored request to the stored response                          *)
(***************************************************************************)
\* the origin the worker is served from; a key that is a bare string is resolved against it
ORIGIN == <<"https://shop", "/">>
RequestUrl(key) ==
    IF Len(key) > 0 /\ key[1] = "https://shop" THEN key
    ELSE IF Len(key) > 0 /\ key[1] \in {"/on/demandware.store/", "/on/demandware.static/"}
    THEN <<"https://shop">> \o key
    ELSE ORIGIN \o key
EmptyCache == [u \in {} |-> Null]
\* cache.match(key)
CacheMatch(cache, key) ==
    IF RequestUrl(key) \in DOMAIN cache THEN Some(cache[RequestUrl(key)]) ELSE Null
\* cache.put(key, response)
CachePut(cache, key, resp) ==
    [u \in DOMAIN cache \cup {RequestUrl(key)} |-> IF u = RequestUrl(key) THEN resp ELSE cache[u]]
\* cache.delete(k) for every k of a list of stored requests
CacheDeleteAll(cache, urls) == [u \in DOMAIN cache \ urls |-> cache[u]]
\* CacheStorage: the caches in the order they were created
HasCache(cs, name) == \E j \in 1..Len(cs) : cs[j].name = name
\* caches.open(name): the cache is created when it does not exist
CachesOpen(cs, name) ==
    IF HasCache(cs, name) THEN cs ELSE Append(cs, [name |-> name, store |-> EmptyCache])
StoreOf(cs, name) ==
    IF HasCache(cs, name) THEN cs[CHOOSE j \in 1..Len(cs) : cs[j].name = name].store
    ELSE EmptyCache
WithStore(cs, name, store) ==
    LET opened == CachesOpen(cs, name)
    IN  [j \in 1..Len(opened) |->
            IF opened[j].name = name THEN [opened[j] EXCEPT !.store = store] ELSE opened[j]]
\* caches.match(key): the first cache, in creation order, that holds the request
CachesMatch(cs, key) ==
    LET hits == {j \in 1..Len(cs) : RequestUrl(key) \in DOMAIN cs[j].store}
    IN  IF hits = {} THEN Null
        ELSE Some(cs[CHOOSE j \in hits : \A h \in hits : j <= h].store[RequestUrl(key)])
\* caches.delete(name)
CachesDelete(cs, name) ==
    LET keep == {j \in 1..Len(cs) : cs[j].name # name}
        rank(j) == Cardinality({h \in keep : h <= j})
    IN  [r \in 1..Cardinality(keep) |-> cs[CHOOSE j \in keep : rank(j) = r]]
\* Response.ok
Ok_NotRejected(resp) == resp.status > 0
Ok(resp) == resp.status >= 200 /\ resp.status <= 299

\* the key `${siteId}.${locale}.${cacheSuffix}`
KeyOf_NoLocale(siteId, locale, cacheSuffix) == siteId \o <<".">> \o cacheSuffix
KeyOf(siteId, locale, cacheSuffix) == siteId \o <<".">> \o locale \o <<".">> \o cacheSuffix

\* String.prototype.replace(pattern, replacement) with a string pattern: the first occurrence
ReplaceFirst(str, pat, rep) ==
    LET p == IndexOf(str, pat)
    IN  IF p = -1 THEN str
        ELSE SubSeq(str, 1, p) \o rep \o SubSeq(str, p + Len(pat) + 1, Len(str))
\* url.replace(`-${urlSiteId}-`, `-${siteId}-`).replace(`/${urlLocale}/`, `/${locale}/`)
LocalizedUrl(url, fromSite, fromLocale, siteId, locale) ==
    ReplaceFirst(
        ReplaceFirst(url, <<"Sites-">> \o fromSite \o <<"-Site/">>,
                          <<"Sites-">> \o siteId \o <<"-Site/">>),
        <<"-Site/">> \o fromLocale \o <<"/">>, <<"-Site/">> \o locale \o <<"/">>)

(***************************************************************************)
(* generateCacheInvalidationMap: trigger URL -> cache suffixes, in the     *)
(* order the keys were first inserted                                      *)
(***************************************************************************)
MapPush(map, url, cacheSuffix) ==
    IF \E j \in 1..Len(map) : map[j].url = url
    THEN [j \in 1..Len(map) |->
            IF map[j].url = url
            THEN [map[j] EXCEPT !.suffixes = Append(@, cacheSuffix)] ELSE map[j]]
    ELSE Append(map, [url |-> url, suffixes |-> <<cacheSuffix>>])
RECURSIVE PushUrls(_, _, _, _)
PushUrls(map, urls, cacheSuffix, i) ==
    IF i > Len(urls) THEN map
    ELSE PushUrls(MapPush(map, urls[i], cacheSuffix), urls, cacheSuffix, i + 1)
RECURSIVE PushConfigs(_, _, _)
PushConfigs(map, configs, i) ==
    IF i > Len(configs) THEN map
    ELSE PushConfigs(PushUrls(map, configs[i].cacheCleanTriggerUrls, configs[i].cacheSuffix, 1),
                     configs, i + 1)
generateCacheInvalidationMap(parts, urls) == PushConfigs(PushConfigs(<<>>, parts, 1), urls, 1)

(***************************************************************************)
(* cleanTriggeredCache: the suffixes of the first trigger contained in the *)
(* normalized URL, and the stored requests it deletes                      *)
(***************************************************************************)
TriggeredSuffixes(cacheCleanUrls, url) ==
    LET shortUrl == StripSiteLocale(url)
        hits == {j \in 1..Len(cacheCleanUrls) : IndexOf(shortUrl, cacheCleanUrls[j].url) # -1}
    IN  IF hits = {} THEN <<>>
        ELSE cacheCleanUrls[CHOOSE j \in hits : \A h \in hits : j <= h].suffixes
ToDelete(keys, suffixes) ==
    {u \in keys : \E j \in 1..Len(suffixes) : IndexOf(u, <<".">> \o suffixes[j]) # -1}

(***************************************************************************)
(* Configuration handed to the worker (swConfig.js getInitConfig) and the  *)
(* inputs the model draws from                                             *)
(***************************************************************************)
HeaderPlaceholder == <<"$", "s", "w", "h", "e", "a", "d", "e", "r", "$">>
FooterPlaceholder == <<"$", "s", "w", "f", "o", "o", "t", "e", "r", "$">>
\* URLUtils.url(action) with the site/locale segment removed (buildRelativeUrls)
Route(action) == <<"/on/demandware.store/", action>>
\* URLUtils.url(action) as rendered for the site and locale of the page that loaded the worker
urlSiteId == <<"A">>
urlLocale == <<"en">>
SiteRoute(siteId, locale, action) ==
    <<"/on/demandware.store/", "Sites-">> \o siteId \o <<"-Site/">> \o locale \o <<"/", action>>
layoutCacheInvalidationRoutes ==
    <<"Account-Login", "Account-SaveNewPassword", "Account-SubmitRegistration", "Login-Logout">>
minicartCacheInvalidationRoutes ==
    <<"Cart-AddProduct", "Cart-Show", "Cart-UpdateQuantity", "Cart-RemoveProductLineItem",
      "Cart-AddCoupon", "Cart-RemoveCouponLineItem", "Cart-EditProductLineItem",
      "CSRF-AjaxFail", "CSRF-Fail", "CheckoutServices-PlaceOrder", "Order-Confirm",
      "COPlaceOrder-Submit", "Account-Login", "Login-Logout">>
wishlistCacheInvalidationRoutes ==
    <<"Wishlist-AddProduct", "Wishlist-RemoveProduct", "Wishlist-EditProductListItem">>
buildRelativeUrls(actions) ==
    [j \in 1..Len(actions) |-> StripSiteLocale(SiteRoute(urlSiteId, urlLocale, actions[j]))]
\* the cachedParts of getInitConfig
ShippedParts ==
    << [ url |-> SiteRoute(urlSiteId, urlLocale, "Page-IncludeHeaderMenu"),
         placeholder |-> HeaderPlaceholder, skipParameter |-> "sw_skipheader",
         cacheSuffix |-> <<"header">>,
         cacheCleanTriggerUrls |-> buildRelativeUrls(layoutCacheInvalidationRoutes) ],
       [ url |-> SiteRoute(urlSiteId, urlLocale, "Page-IncludeFooter"),
         placeholder |-> FooterPlaceholder, skipParameter |-> "sw_skipfooter",
         cacheSuffix |-> <<"footer">>,
         cacheCleanTriggerUrls |-> buildRelativeUrls(layoutCacheInvalidationRoutes) ] >>
\* the cachedUrls of getInitConfig
ShippedUrls ==
    << [ url |-> SiteRoute(urlSiteId, urlLocale, "Cart-MiniCartShow"),
         cacheSuffix |-> <<"MiniCartShow">>,
         cacheCleanTriggerUrls |-> buildRelativeUrls(minicartCacheInvalidationRoutes) ],
       [ url |-> SiteRoute(urlSiteId, urlLocale, "Wishlist-Show"),
         cacheSuffix |-> <<"WishlistShow">>,
         cacheCleanTriggerUrls |-> buildRelativeUrls(wishlistCacheInvalidationRoutes) ] >>
\* the shipped parts, the first placeholder replaced by one with a one-byte suffix after '$sw'
ShortPlaceholder == <<"$", "s", "w", "a">>
ShortParts == [ShippedParts EXCEPT ![1].placeholder = ShortPlaceholder]
PartsChoices == {ShippedParts, ShortParts}

RECURSIVE Flatten(_)
Flatten(ss) == IF Len(ss) = 0 THEN <<>> ELSE Head(ss) \o Flatten(Tail(ss))
\* n copies of the string s
Repeat(s, n) == [j \in 1..(n * Len(s)) |-> s[((j - 1) % Len(s)) + 1]]

\* upstream bytes: the document origin of byte j is <<j>>
Tag(chars) == [j \in 1..Len(chars) |-> [c |-> chars[j], o |-> <<j - 1>>]]

MaxScanPieces == 3
\* building blocks of a buffer: a lone '$', a run of bare prefixes, filler, the tokens
PrefixRun == Repeat(PLACEHOLDER_PREFIX, 4)
Pieces(parts) ==
    {<<"$">>, PrefixRun, <<"x">>} \cup {parts[k].placeholder : k \in 1..Len(parts)}
Buffers(parts, n) ==
    UNION {{Flatten(s) : s \in [1..k -> Pieces(parts)]} : k \in 0..n}

\* the worker's configuration
VARIABLES cachedParts
\* the scanner on its own
VARIABLES sbuf, scut, spc, r1, r2, rw
\* one navigation: what the network and the page hand in
VARIABLES navUrl, body, net, ident
\* cache storage, shared by everything the worker does
VARIABLES caches
\* one navigation: respondToNavigation and the stream of createStream
VARIABLES answer, pc, queue, awaiting, item, sdone, out, rd, part, upos, nreads
\* history of one navigation, kept for the statements below and never read by an action's guard
VARIABLES hist
\* the fetch events the worker is handling, and the last run of cleanTriggeredCache
VARIABLES events, lastClean
\* the worker being installed, its run of clearOldCaches, and the worker of the previous
\* generation that still has a fragment resolution in flight
VARIABLES worker, cleanup, oldw
\* the consumer has cancelled the stream: the ReadableStream is closed
VARIABLES cancelled
\* which operation of cache storage fails, if any: the store is unavailable for the whole run
VARIABLES cacheFault

scanVars == <<sbuf, scut, spc, r1, r2, rw>>
navInputs == <<navUrl, body, net, ident>>
streamVars == <<answer, pc, queue, awaiting, item, sdone, out, rd, part, upos, nreads, hist>>
swVars == <<events, lastClean>>
genVars == <<worker, cleanup, oldw>>
extVars == <<genVars, cancelled, cacheFault>>
vars == <<cachedParts, scanVars, navInputs, caches, streamVars, swVars, extVars>>

NoResult == [found |-> NoMatch, before |-> Null, after |-> Null, leftover |-> Null]
Encoded == encodePlaceholderConfigs(cachedParts)
Chunk1 == Slice(sbuf, 0, scut)
Chunk2 == Slice(sbuf, scut, Len(sbuf))

\* the values of the variables a specification does not use
NoItem == [value |-> Null, done |-> FALSE, isBase |-> FALSE, merge |-> FALSE]
NoEntry == [kind |-> "none", it |-> NoItem]
NoRead == [st |-> "none", done |-> FALSE, value |-> Null]
NoPart == [st |-> "none", config |-> 0, key |-> <<>>, org |-> <<>>, data |-> <<>>,
           resp |-> [status |-> 0, body |-> <<>>], hit |-> FALSE, fetches |-> 0, wrote |-> FALSE]
NoHist == [parts |-> 0, fetches |-> 0, raced |-> FALSE, late |-> FALSE, failed |-> {}]
ScanIdle ==
    /\ sbuf = <<>>
    /\ scut = 0
    /\ spc = "idle"
    /\ r1 = NoResult
    /\ r2 = NoResult
    /\ rw = NoResult
NoWorker == [enabled |-> TRUE, phase |-> "none", registered |-> TRUE, skipWaiting |-> FALSE,
             navigated |-> FALSE]
NoCleanup == [st |-> "none", names |-> {}]
\* a worker that serves, with no other generation around
GenIdle ==
    /\ worker = NoWorker
    /\ cleanup = NoCleanup
    /\ oldw = "none"
NoClean == [ran |-> FALSE, url |-> <<>>, before |-> <<>>, after |-> <<>>]
SWIdle ==
    /\ events = <<>>
    /\ lastClean = NoClean
    /\ GenIdle
    /\ cancelled = FALSE
    /\ cacheFault = "none"
StreamIdle ==
    /\ navUrl = <<>>
    /\ body = <<>>
    /\ net = <<>>
    /\ ident = [siteId |-> <<>>, locale |-> <<>>]
    /\ answer = "none"
    /\ pc = "idle"
    /\ queue = <<>>
    /\ awaiting = NoEntry
    /\ item = NoItem
    /\ sdone = FALSE
    /\ out = <<>>
    /\ rd = NoRead
    /\ part = NoPart
    /\ upos = 0
    /\ nreads = 0
    /\ hist = NoHist

(***************************************************************************)
(* The scanner on its own: one buffer, scanned whole and scanned as two    *)
(* chunks with the carry-over of the first prepended to the second         *)
(***************************************************************************)
ScanInit ==
    /\ cachedParts \in PartsChoices
    /\ sbuf \in {Tag(b) : b \in Buffers(cachedParts, MaxScanPieces)}
    /\ scut \in 0..Len(sbuf)
    /\ spc = "start"
    /\ r1 = NoResult
    /\ r2 = NoResult
    /\ rw = NoResult
    /\ caches = <<>>
    /\ StreamIdle
    /\ SWIdle

\* one call on the whole buffer
ScanWhole ==
    /\ spc = "start"
    /\ \E isFinal \in BOOLEAN :
          rw' = extractPlaceholderChunk(sbuf, Encoded.prefixBytes, Encoded.configs, isFinal)
    /\ spc' = "whole"
    /\ UNCHANGED <<extVars, swVars, cachedParts, sbuf, scut, r1, r2, navInputs, caches, streamVars>>

\* the first chunk, more to come
ScanFirst ==
    /\ spc = "whole"
    /\ r1' = extractPlaceholderChunk(Chunk1, Encoded.prefixBytes, Encoded.configs, FALSE)
    /\ spc' = "first"
    /\ UNCHANGED <<extVars, swVars, cachedParts, sbuf, scut, r2, rw, navInputs, caches, streamVars>>

\* nextFromQueue's merge of the carry-over with the next chunk, scanned again
ScanSecond ==
    /\ spc = "first"
    /\ ~r1.leftover.isNull
    /\ \E isFinal \in BOOLEAN :
          r2' = extractPlaceholderChunk(r1.leftover.v \o Chunk2, Encoded.prefixBytes,
                                        Encoded.configs, isFinal)
    /\ spc' = "second"
    /\ UNCHANGED <<extVars, swVars, cachedParts, sbuf, scut, r1, rw, navInputs, caches, streamVars>>

ScanNext == ScanWhole \/ ScanFirst \/ ScanSecond
SpecScan == ScanInit /\ [][ScanNext]_vars

(***************************************************************************)
(* Claims about the scanner                                                *)
(***************************************************************************)
\* a configured placeholder lies in the buffer at 0-based position t
OccursAt(chars, placeholder, t) ==
    /\ t >= 0
    /\ t + Len(placeholder) <= Len(chars)
    /\ SubSeq(chars, t + 1, t + Len(placeholder)) = placeholder
TokenOccurs(chars, parts) ==
    \E k \in 1..Len(parts) : \E t \in 0..Len(chars) : OccursAt(chars, parts[k].placeholder, t)
\* a configured placeholder starts in the first chunk and ends in the second
TokenSplitAtCut ==
    \E k \in 1..Len(cachedParts) : \E t \in 0..Len(sbuf) :
        /\ OccursAt(Chars(sbuf), cachedParts[k].placeholder, t)
        /\ t < scut
        /\ scut < t + Len(cachedParts[k].placeholder)
LongestPlaceholder ==
    CHOOSE m \in {Len(cachedParts[k].placeholder) : k \in 1..Len(cachedParts)} :
        \A k \in 1..Len(cachedParts) : Len(cachedParts[k].placeholder) <= m

\* what one scan reports, as a statement of C9
Reconstructs(bytes, r) ==
    r.found.found =>
        LET token == Encoded.configs[r.found.config].placeholder
        IN  /\ Chars(Slice(bytes, r.found.start, r.found.end + 1)) = token
            /\ Chars(r.before.v) \o token \o Chars(r.after.v) = Chars(bytes)

\* C9: whenever extractPlaceholderChunk reports a match, the bytes at start..end are the
\* full placeholder of the reported config and before ++ token ++ after is the buffer,
\* for every buffer and token set, one-byte suffixes included.
C9_MatchReconstructsBuffer ==
    spc # "start" => Reconstructs(sbuf, rw)

\* C10: the carry-over of a scan is never longer than the longest configured placeholder.
C10_CarryOverWithinLongestToken ==
    /\ Len(rw.leftover.v) <= LongestPlaceholder
    /\ Len(r1.leftover.v) <= LongestPlaceholder
    /\ Len(r2.leftover.v) <= LongestPlaceholder

\* C10 as amended: the carry-over of a scan is never longer than the fixed window of
\* LAST_BYTES_COUNT bytes, whatever the configured placeholders are; whenever the scanned
\* buffer is longer than the window the carry-over is exactly the window and the rest is
\* passed on as 'before'.
C10_CarryOverWithinWindow ==
    /\ Len(rw.leftover.v) <= LAST_BYTES_COUNT
    /\ Len(r1.leftover.v) <= LAST_BYTES_COUNT
    /\ Len(r2.leftover.v) <= LAST_BYTES_COUNT
    /\ (spc # "start" /\ ~rw.leftover.isNull) =>
          /\ rw.before.v \o rw.leftover.v = sbuf
          /\ Len(sbuf) > LAST_BYTES_COUNT => Len(rw.leftover.v) = LAST_BYTES_COUNT
C10_Witness ==
    /\ spc # "start"
    /\ ~rw.leftover.isNull
    /\ Len(rw.leftover.v) = LAST_BYTES_COUNT
    /\ Len(rw.leftover.v) > LongestPlaceholder
    /\ ~rw.before.isNull
    /\ Len(rw.before.v) > 0

\* C3: when a configured placeholder is split over two chunks, scanning the first chunk as
\* non-final and then its carry-over followed by the second chunk gives the same match
\* (config and position in the concatenation) or the same no-match as one scan of the
\* concatenation.
C3_SplitScanEqualsWholeScan ==
    (spc = "second" /\ TokenSplitAtCut) =>
        LET off == scut - Len(r1.leftover.v)
        IN  /\ r2.found.found = rw.found.found
            /\ r2.found.found =>
                  /\ r2.found.config = rw.found.config
                  /\ r2.found.start + off = rw.found.start
                  /\ r2.found.end + off = rw.found.end

(***************************************************************************)
(* One navigation request: respondToNavigation, then the stream that       *)
(* createStream returns                                                    *)
(***************************************************************************)
\* CACHE_ID = codeVersion + '_' + cacheVersion, and the offline page of getInitConfig
CACHE_ID == "Build-1_dw1"
OFFLINE_URL == <<"/on/demandware.static/", "offline", ".", "html">>
OfflinePage == [status |-> 200, body |-> <<"o", "f", "f">>]
cacheCleanUrls == generateCacheInvalidationMap(cachedParts, ShippedUrls)

MaxPieces == 2
MaxChunks == 2
\* the lengths a chunk of the upstream body may have, besides "all that is left"
ChunkSizes == {1, 8, LAST_BYTES_COUNT + 1}

\* what the backend answers for the two fragment URLs; status 0 is a fetch that rejects
FragmentUrl(k) == LocalizedUrl(Encoded.configs[k].url, urlSiteId, urlLocale,
                               ident.siteId, ident.locale)
HeaderUrl == ShippedParts[1].url
FooterUrl == ShippedParts[2].url
NetOf(header, footer) == [u \in {HeaderUrl, FooterUrl} |->
                            IF u = HeaderUrl THEN header ELSE footer]
NetChoices ==
    { NetOf([status |-> 200, body |-> <<"H", "D", "R">>], [status |-> 200, body |-> <<"F", "T", "R">>]),
      NetOf([status |-> 200, body |-> <<"H">> \o FooterPlaceholder],
            [status |-> 200, body |-> <<"F", "T", "R">>]),
      NetOf([status |-> 0, body |-> <<>>], [status |-> 200, body |-> <<"F", "T", "R">>]),
      NetOf([status |-> 500, body |-> <<"E">>], [status |-> 200, body |-> <<>>]),
      NetOf([status |-> 200, body |-> Repeat(<<"H">>, LAST_BYTES_COUNT + 2)],
            [status |-> 200, body |-> <<"F", "T", "R">>]) }
\* fetch(new Request(url))
NetFetch(url) == IF url \in DOMAIN net THEN net[url] ELSE [status |-> 404, body |-> <<"4", "0", "4">>]

PageUrl(action) == <<"https://shop">> \o SiteRoute(<<"A">>, <<"en">>, action)
NavUrls == {PageUrl("Home-Show"), PageUrl("Account-Login")}
StoredFragment(k) == KeyOf(<<"A">>, <<"en">>, ShippedParts[k].cacheSuffix)
\* the storage when the navigation arrives: the offline page of the install step, and
\* possibly the header fragment of an earlier navigation
InitialCaches(n) ==
    LET fresh == <<[name |-> CACHE_ID, store |-> CachePut(EmptyCache, OFFLINE_URL, OfflinePage)]>>
    IN  {fresh} \cup
        (IF Ok(n[HeaderUrl])
         THEN {WithStore(fresh, CACHE_ID,
                         CachePut(StoreOf(fresh, CACHE_ID), StoredFragment(1), n[HeaderUrl]))}
         ELSE {})

Init ==
    /\ cachedParts \in PartsChoices
    /\ navUrl \in NavUrls
    /\ body \in {Tag(b) : b \in Buffers(cachedParts, MaxPieces)}
    /\ net \in NetChoices
    /\ ident = [siteId |-> <<"A">>, locale |-> <<"en">>]
    /\ caches \in InitialCaches(net)
    /\ answer = "none"
    /\ pc = "nav"
    /\ queue = <<>>
    /\ awaiting = NoEntry
    /\ item = NoItem
    /\ sdone = FALSE
    /\ out = <<>>
    /\ rd = NoRead
    /\ part = NoPart
    /\ upos = 0
    /\ nreads = 0
    /\ hist = NoHist
    /\ ScanIdle
    /\ SWIdle

\* cleanTriggeredCache(fetchEvent) on the storage cs
cleanTriggeredCache(cs, url) ==
    LET suffixes == TriggeredSuffixes(cacheCleanUrls, url)
        opened == CachesOpen(cs, CACHE_ID)
        cache == StoreOf(opened, CACHE_ID)
    IN  WithStore(opened, CACHE_ID, CacheDeleteAll(cache, ToDelete(DOMAIN cache, suffixes)))

\* respondToNavigation, line 226
NavClean ==
    /\ pc = "nav"
    /\ caches' = cleanTriggeredCache(caches, navUrl)
    /\ pc' = "navFetch"
    /\ UNCHANGED <<extVars, swVars, cachedParts, scanVars, navInputs, answer, queue, awaiting, item, sdone, out,
                   rd, part, upos, nreads, hist>>

\* respondToNavigation, lines 227-237: the fetch and the choice of the answer
NavResponses == {"reject", "401", "301", "302", "opaqueredirect", "200", "500"}
\* the catch of lines 234-237: the offline page, or undefined when it is not stored
OfflineAnswer(cs) ==
    IF CacheMatch(StoreOf(CachesOpen(cs, CACHE_ID), CACHE_ID), OFFLINE_URL).isNull
    THEN "undefined" ELSE "offline"
\* lines 228-237: what the navigation is answered with
NavAnswer_RewriteRedirects(r, cs) ==
    IF r = "reject" THEN OfflineAnswer(cs)
    ELSE IF r = "401" THEN "auth"
    ELSE IF r \in {"301"} THEN "redirect"
    ELSE "stream"
NavAnswer(r, cs) ==
    IF r = "reject" THEN OfflineAnswer(cs)
    ELSE IF r = "401" THEN "auth"
    ELSE IF r \in {"301", "302", "opaqueredirect"} THEN "redirect"
    ELSE "stream"
NavFetch ==
    /\ pc = "navFetch"
    /\ \E r \in NavResponses :
          /\ answer' = NavAnswer(r, caches)
          /\ caches' = IF r = "reject" THEN CachesOpen(caches, CACHE_ID) ELSE caches
          /\ pc' = IF NavAnswer(r, caches) = "stream" THEN "start" ELSE "answered"
    /\ UNCHANGED <<extVars, swVars, cachedParts, scanVars, navInputs, queue, awaiting, item, sdone, out,
                   rd, part, upos, nreads, hist>>

ReadEntry == [kind |-> "read", it |-> NoItem]
PartEntry == [kind |-> "part", it |-> NoItem]
ValueEntry(bytes, merge) ==
    [kind |-> "value", it |-> [value |-> Some(bytes), done |-> FALSE, isBase |-> FALSE,
                               merge |-> merge]]

\* start(controller): the reader, the encoded placeholders, the first read
Start ==
    /\ pc = "start"
    /\ IF \A k \in 1..Len(cachedParts) : StartsWithPrefix(cachedParts[k].placeholder)
       THEN /\ rd' = [st |-> "pending", done |-> FALSE, value |-> Null]
            /\ queue' = <<ReadEntry>>
            /\ pc' = "pull"
       ELSE /\ pc' = "errored"
            /\ UNCHANGED <<rd, queue>>
    /\ UNCHANGED <<extVars, swVars, cachedParts, scanVars, navInputs, caches, answer, awaiting, item, sdone, out,
                   part, upos, nreads, hist>>

\* reader.read() settles: the next chunk of the body, the end of the body, or a failure
ReadSettles ==
    /\ rd.st = "pending"
    /\ \/ /\ upos < Len(body)
          /\ \E n \in 1..(Len(body) - upos) :
                /\ \/ n = Len(body) - upos
                   \/ n \in ChunkSizes /\ nreads + 1 < MaxChunks
                /\ rd' = [st |-> "fulfilled", done |-> FALSE,
                          value |-> Some(Slice(body, upos, upos + n))]
                /\ upos' = upos + n
          /\ nreads' = nreads + 1
       \/ /\ upos = Len(body)
          /\ rd' = [st |-> "fulfilled", done |-> TRUE, value |-> Null]
          /\ UNCHANGED <<upos, nreads>>
       \/ /\ rd' = [st |-> "rejected", done |-> FALSE, value |-> Null]
          /\ UNCHANGED <<upos, nreads>>
    /\ hist' = [hist EXCEPT !.raced = @ \/ (part.st \in {"match", "fetch", "put"}
                                            /\ rd'.st = "fulfilled")]
    /\ UNCHANGED <<extVars, swVars, cachedParts, scanVars, navInputs, caches, answer, pc, queue, awaiting, item,
                   sdone, out, part>>

\* a promise of the queue: settled or not, and what it resolves to
Settled(e) ==
    CASE e.kind = "read" -> rd.st \in {"fulfilled", "rejected"}
      [] e.kind = "part" -> part.st \in {"fulfilled", "rejected"}
      [] OTHER -> TRUE
Rejected(e) ==
    CASE e.kind = "read" -> rd.st = "rejected"
      [] e.kind = "part" -> part.st = "rejected"
      [] OTHER -> FALSE
\* readChunk: { ...res, isBase: true };  fetchOrCachePart: { value: data }
Resolved_NotBase(e) ==
    CASE e.kind = "read" -> [value |-> rd.value, done |-> rd.done, isBase |-> FALSE, merge |-> FALSE]
      [] e.kind = "part" -> [value |-> Some(part.data), done |-> FALSE, isBase |-> FALSE,
                             merge |-> FALSE]
      [] OTHER -> e.it
Resolved(e) ==
    CASE e.kind = "read" -> [value |-> rd.value, done |-> rd.done, isBase |-> TRUE, merge |-> FALSE]
      [] e.kind = "part" -> [value |-> Some(part.data), done |-> FALSE, isBase |-> FALSE,
                             merge |-> FALSE]
      [] OTHER -> e.it

\* nextFromQueue, lines 247-253: the next item folded into the carry-over item
MergeItem_Overwrite(it, next) ==
    [ done |-> it.done \/ next.done, merge |-> next.merge, isBase |-> next.isBase,
      value |-> IF ~next.value.isNull THEN next.value ELSE it.value ]
MergeItem(it, next) ==
    [ done |-> it.done \/ next.done, merge |-> next.merge, isBase |-> next.isBase,
      value |-> IF ~next.value.isNull THEN Some(it.value.v \o next.value.v) ELSE it.value ]

\* pull, lines 270-272: the carry-over, the bytes after the match and the fragment are
\* put at the head of the queue, in this order
Unshifts_FragmentLast(q, r) ==
    LET q1 == IF ~r.leftover.isNull THEN <<ValueEntry(r.leftover.v, TRUE)>> \o q ELSE q
        q2 == IF r.found.found THEN <<PartEntry>> \o q1 ELSE q1
    IN  IF ~r.after.isNull THEN <<ValueEntry(r.after.v, FALSE)>> \o q2 ELSE q2
Unshifts(q, r) ==
    LET q1 == IF ~r.leftover.isNull THEN <<ValueEntry(r.leftover.v, TRUE)>> \o q ELSE q
        q2 == IF ~r.after.isNull THEN <<ValueEntry(r.after.v, FALSE)>> \o q1 ELSE q1
    IN  IF r.found.found THEN <<PartEntry>> \o q2 ELSE q2

\* pull, line 259, and the shift of nextFromQueue, line 244
PullEnter ==
    /\ pc = "pull"
    /\ IF queue = <<>> \/ sdone
       THEN pc' = "closed" /\ UNCHANGED <<queue, awaiting>>
       ELSE /\ awaiting' = Head(queue)
            /\ queue' = Tail(queue)
            /\ pc' = "awaitItem"
    /\ UNCHANGED <<extVars, swVars, cachedParts, scanVars, navInputs, caches, answer, item, sdone, out, rd, part,
                   upos, nreads, hist>>

\* what is left of the promise once its value has been taken
Taken(e) ==
    /\ rd' = IF e.kind = "read" THEN NoRead ELSE rd
    /\ part' = IF e.kind = "part" THEN NoPart ELSE part
\* nextFromQueue, line 245: merge again, or hand the item to pull
LoopOrReturn(it) ==
    IF it.merge /\ queue # <<>>
    THEN awaiting' = Head(queue) /\ queue' = Tail(queue) /\ pc' = "awaitNext"
    ELSE awaiting' = NoEntry /\ UNCHANGED queue /\ pc' = "process"

\* nextFromQueue, line 244: the awaited head of the queue settles
ItemSettles ==
    /\ pc = "awaitItem"
    /\ Settled(awaiting)
    /\ IF Rejected(awaiting)
       THEN pc' = "errored" /\ UNCHANGED <<queue, awaiting, item, rd, part>>
       ELSE /\ item' = Resolved(awaiting)
            /\ Taken(awaiting)
            /\ LoopOrReturn(Resolved(awaiting))
    /\ UNCHANGED <<extVars, swVars, cachedParts, scanVars, navInputs, caches, answer, sdone, out, upos, nreads,
                   hist>>

\* nextFromQueue, lines 246-253: the awaited next item settles and is merged
NextSettles ==
    /\ pc = "awaitNext"
    /\ Settled(awaiting)
    /\ IF Rejected(awaiting)
       THEN pc' = "errored" /\ UNCHANGED <<queue, awaiting, item, rd, part>>
       ELSE /\ item' = MergeItem(item, Resolved(awaiting))
            /\ Taken(awaiting)
            /\ LoopOrReturn(MergeItem(item, Resolved(awaiting)))
    /\ UNCHANGED <<extVars, swVars, cachedParts, scanVars, navInputs, caches, answer, sdone, out, upos, nreads,
                   hist>>

\* the origin of the fragment that replaces the match: the place of the token's first byte
OriginOfMatch(bytes, found) ==
    IF found.start >= 0 /\ found.start < Len(bytes) THEN bytes[found.start + 1].o
    ELSE bytes[1].o

\* fetchOrCachePart called for the match: the lookup of line 179 is the next step
CalledPartOf(id, bytes, found) ==
    [ st |-> "match", config |-> found.config,
      key |-> KeyOf(id.siteId, id.locale, Encoded.configs[found.config].cacheSuffix),
      org |-> OriginOfMatch(bytes, found),
      data |-> <<>>, resp |-> [status |-> 0, body |-> <<>>],
      hit |-> FALSE, fetches |-> 0, wrote |-> FALSE ]
CalledPart(bytes, found) == CalledPartOf(ident, bytes, found)

\* pull, lines 269-275: what is done with the result of the scan. Once the consumer has
\* cancelled, the stream is closed and controller.enqueue throws: pull ends there
Scanned(r, again) ==
    IF cancelled /\ ~r.before.isNull
    THEN pc' = "errored" /\ UNCHANGED <<queue, out, rd, part, hist>>
    ELSE /\ out' = IF ~r.before.isNull THEN Append(out, r.before.v) ELSE out
         /\ queue' = IF again THEN Append(Unshifts(queue, r), ReadEntry) ELSE Unshifts(queue, r)
         /\ rd' = IF again THEN [st |-> "pending", done |-> FALSE, value |-> Null] ELSE rd
         /\ part' = IF r.found.found THEN CalledPart(item.value.v, r.found) ELSE part
         /\ hist' = IF r.found.found THEN [hist EXCEPT !.parts = @ + 1] ELSE hist
         /\ pc' = "pull"

\* pull, lines 262-275, up to the call of pull that ends it
ProcessItem(d) ==
    /\ sdone' = d
    /\ IF d /\ item.value.isNull
       THEN pc' = (IF cancelled THEN "errored" ELSE "closed")
            /\ UNCHANGED <<queue, out, rd, part, hist>>
       ELSE IF item.value.isNull
       THEN pc' = "errored" /\ UNCHANGED <<queue, out, rd, part, hist>>
       ELSE Scanned(extractPlaceholderChunk(item.value.v, Encoded.prefixBytes,
                                            Encoded.configs, d),
                    ~d /\ item.isBase)
Process ==
    /\ pc = "process"
    /\ ProcessItem(sdone \/ item.done)
    /\ item' = NoItem
    /\ UNCHANGED <<extVars, swVars, cachedParts, scanVars, navInputs, caches, answer, awaiting, upos, nreads>>

\* the bytes of a fragment: byte j of the fragment that replaces the token at origin org
TagAt(org, chars) == [j \in 1..Len(chars) |-> [c |-> chars[j], o |-> Append(org, j - 1)]]

\* fetchOrCachePart, line 179: caches.match(key)
PartMatch ==
    /\ part.st = "match"
    /\ LET resp == CachesMatch(caches, part.key)
       IN  IF ~resp.isNull
           THEN part' = [part EXCEPT !.st = "fulfilled", !.resp = resp.v, !.hit = TRUE,
                                     !.data = TagAt(part.org, resp.v.body)]
           ELSE part' = [part EXCEPT !.st = "fetch"]
    /\ UNCHANGED <<extVars, swVars, cachedParts, scanVars, navInputs, caches, answer, pc, queue, awaiting, item,
                   sdone, out, rd, upos, nreads, hist>>

\* fetchOrCachePart, lines 182-187: the fetch of the fragment's URL
PartFetch ==
    /\ part.st = "fetch"
    /\ LET resp == NetFetch(FragmentUrl(part.config))
       IN  IF resp.status = 0
           THEN part' = [part EXCEPT !.st = "rejected", !.fetches = @ + 1]
           ELSE IF Ok(resp)
           THEN part' = [part EXCEPT !.st = "put", !.resp = resp, !.fetches = @ + 1]
           ELSE part' = [part EXCEPT !.st = "fulfilled", !.resp = resp, !.fetches = @ + 1,
                                     !.data = TagAt(part.org, resp.body)]
    /\ hist' = [hist EXCEPT !.fetches = @ + 1,
                             !.failed = IF NetFetch(FragmentUrl(part.config)).status \in 200..299
                                        THEN @ ELSE @ \cup {part.org}]
    /\ UNCHANGED <<extVars, swVars, cachedParts, scanVars, navInputs, caches, answer, pc, queue, awaiting, item,
                   sdone, out, rd, upos, nreads>>

\* fetchOrCachePart, lines 188-195: the response is stored and its bytes are returned
PartPut ==
    /\ part.st = "put"
    /\ caches' = WithStore(caches, CACHE_ID,
                           CachePut(StoreOf(caches, CACHE_ID), part.key, part.resp))
    /\ part' = [part EXCEPT !.st = "fulfilled", !.wrote = TRUE,
                             !.data = TagAt(part.org, part.resp.body)]
    /\ hist' = [hist EXCEPT !.late = @ \/ cancelled]
    /\ UNCHANGED <<extVars, swVars, cachedParts, scanVars, navInputs, answer, pc, queue, awaiting, item,
                   sdone, out, rd, upos, nreads>>

Next ==
    \/ NavClean
    \/ NavFetch
    \/ Start
    \/ ReadSettles
    \/ PullEnter
    \/ ItemSettles
    \/ NextSettles
    \/ Process
    \/ PartMatch
    \/ PartFetch
    \/ PartPut
Spec == Init /\ [][Next]_vars

(***************************************************************************)
(* Claims about one navigation and its stream                              *)
(***************************************************************************)
\* document order: x before y when x is smaller at the first place they differ, or x is a
\* proper prefix of y
RECURSIVE LexLess(_, _)
LexLess(x, y) ==
    IF y = <<>> THEN FALSE
    ELSE IF x = <<>> THEN TRUE
    ELSE IF Head(x) # Head(y) THEN Head(x) < Head(y)
    ELSE LexLess(Tail(x), Tail(y))
Emitted == Flatten(out)
InDocumentOrder(bytes) ==
    \A j \in 1..(Len(bytes) - 1) : LexLess(bytes[j].o, bytes[j + 1].o)

\* the bytes a placeholder stands for: the stored fragment, else what the backend answers
ResolvedFragment(k) ==
    IF ~CachesMatch(caches, KeyOf(ident.siteId, ident.locale, cachedParts[k].cacheSuffix)).isNull
    THEN CachesMatch(caches, KeyOf(ident.siteId, ident.locale, cachedParts[k].cacheSuffix)).v.body
    ELSE NetFetch(FragmentUrl(k)).body
\* the configs whose placeholder lies at 0-based position t
ConfigsAt(chars, t) ==
    {k \in 1..Len(cachedParts) : OccursAt(chars, cachedParts[k].placeholder, t)}
FirstOf(ks) == CHOOSE k \in ks : \A j \in ks : k <= j
\* the upstream characters with every placeholder replaced, left to right, not overlapping
RECURSIVE Subst(_, _)
Subst(chars, t) ==
    IF t >= Len(chars) THEN <<>>
    ELSE IF ConfigsAt(chars, t) # {}
    THEN ResolvedFragment(FirstOf(ConfigsAt(chars, t)))
         \o Subst(chars, t + Len(cachedParts[FirstOf(ConfigsAt(chars, t))].placeholder))
    ELSE <<chars[t + 1]>> \o Subst(chars, t + 1)
Occurrences(chars) ==
    {<<k, t>> \in (1..Len(cachedParts)) \X (0..Len(chars)) :
        OccursAt(chars, cachedParts[k].placeholder, t)}
AllFragmentsResolve == \A u \in DOMAIN net : net[u].status # 0

\* C1: for every body, chunking and token set, the bytes the stream emitted when it closes
\* are the upstream bytes with every complete occurrence of a configured placeholder
\* replaced by its resolved fragment, whatever bytes precede the occurrence.
C1_OutputIsSubstitutedBody ==
    (pc = "closed" /\ AllFragmentsResolve) =>
        Chars(Emitted) = Subst(Chars(body), 0)

\* C2: at every moment the bytes emitted so far are in document order (before a
\* placeholder, its fragment, after it), whenever the reads and the fragment resolution
\* complete.
C2_OutputInDocumentOrder ==
    InDocumentOrder(Emitted)
\* a read completed while a fragment was being resolved, and both the fragment and the
\* bytes after its placeholder were emitted
C2_Witness ==
    /\ pc = "closed"
    /\ hist.raced
    /\ \E i \in 1..Len(Emitted) : \E j \in 1..Len(Emitted) :
          /\ i < j
          /\ Len(Emitted[i].o) = 2
          /\ Len(Emitted[j].o) = 1

\* C6: a navigation ends as the live page delivered completely, a redirect, the auth page
\* or the offline page; a failure anywhere is answered with the offline page, never with
\* an errored response.
C6_NavigationNeverErrors ==
    /\ pc \in {"answered", "closed", "errored"} =>
          answer \in {"stream", "redirect", "auth", "offline"}
    /\ pc = "errored" => answer = "offline"

\* C7: when no configured placeholder occurs in the upstream body, the chunks emitted by
\* the closed stream concatenate to the body, for every chunking, and no fragment
\* resolution is ever started.
C7_NoTokenPassThrough ==
    ~TokenOccurs(Chars(body), cachedParts) =>
        /\ hist.parts = 0
        /\ part.st = "none"
        /\ pc = "closed" => Emitted = body
C7_Witness ==
    /\ pc = "closed"
    /\ ~TokenOccurs(Chars(body), cachedParts)
    /\ Len(body) > LAST_BYTES_COUNT
    /\ nreads = MaxChunks
    /\ Emitted = body

\* C8: when exactly one configured placeholder occurs exactly once in the body, the closed
\* stream emitted the bytes before it, the resolved fragment, and the bytes after it,
\* for every chunking and every content of the fragment.
C8_SingleTokenReplaced ==
    (pc = "closed" /\ AllFragmentsResolve /\ Cardinality(Occurrences(Chars(body))) = 1) =>
        \A kt \in Occurrences(Chars(body)) :
            Chars(Emitted) =
                SubSeq(Chars(body), 1, kt[2])
                \o ResolvedFragment(kt[1])
                \o SubSeq(Chars(body), kt[2] + Len(cachedParts[kt[1]].placeholder) + 1, Len(body))

(***************************************************************************)
(* The fetch listener and the strategies it hands a request to             *)
(***************************************************************************)
MaxRequests == 2

\* isStaticResource
isStaticResource(url) ==
    /\ IndexOf(url, <<"/on/demandware.static/">>) # -1
    /\ IndexOf(url, <<"/on/demandware.static/", "-/Sites-">>) = -1
\* isAllowedExtension: /.*\.(js|css)/
isAllowedExtension(url) ==
    IndexOf(url, <<".", "js">>) # -1 \/ IndexOf(url, <<".", "css">>) # -1
isCacheableStatic(request) ==
    IF isStaticResource(request.url)
    THEN request.destination \in {"image", "script", "style", "font"}
         \/ isAllowedExtension(request.url)
    ELSE FALSE
isSameOrigin(url) == Len(url) > 0 /\ url[1] = "https://shop"
\* getAjaxCacheConfig: the index of the first cachedUrls config the request is for, 0 for none
getAjaxCacheConfig(request) ==
    IF request.siteId.isNull \/ request.locale.isNull THEN 0
    ELSE IF \E k \in 1..Len(ShippedUrls) :
               IndexOf(request.url, LocalizedUrl(ShippedUrls[k].url, urlSiteId, urlLocale,
                                                 request.siteId.v, request.locale.v)) # -1
    THEN CHOOSE k \in 1..Len(ShippedUrls) :
            /\ IndexOf(request.url, LocalizedUrl(ShippedUrls[k].url, urlSiteId, urlLocale,
                                                 request.siteId.v, request.locale.v)) # -1
            /\ \A h \in 1..(k - 1) :
                  IndexOf(request.url, LocalizedUrl(ShippedUrls[h].url, urlSiteId, urlLocale,
                                                    request.siteId.v, request.locale.v)) = -1
    ELSE 0

\* the requests the pages make
AjaxRequest(siteId, locale, action) ==
    [ url |-> <<"https://shop">> \o SiteRoute(siteId, locale, action), mode |-> "cors",
      destination |-> "", siteId |-> Some(siteId), locale |-> Some(locale) ]
PageRequest(action, mode) ==
    [ url |-> <<"https://shop">> \o SiteRoute(<<"A">>, <<"en">>, action), mode |-> mode,
      destination |-> IF mode = "navigate" THEN "document" ELSE "",
      siteId |-> Null, locale |-> Null ]
StaticRequest(file) ==
    [ url |-> <<"https://shop", "/on/demandware.static/">> \o file, mode |-> "no-cors",
      destination |-> "script", siteId |-> Null, locale |-> Null ]
HeaderScript == <<"main", ".", "header", ".", "js">>
SWRequests ==
    { AjaxRequest(<<"A">>, <<"en">>, "Cart-MiniCartShow"),
      AjaxRequest(<<"B">>, <<"fr">>, "Cart-MiniCartShow"),
      PageRequest("Cart-AddProduct", "same-origin"),
      PageRequest("Cart-AddProduct", "cors"),
      PageRequest("Account-Login", "navigate"),
      StaticRequest(HeaderScript) }
\* what the backend may answer; status 0 is a fetch that rejects
\* what the backend renders for a URL: a controller renders for the site and the locale
\* of the URL it is called with
BackendBody(url) ==
    IF \E p \in 1..Len(url) : SiteLocaleAt(url, p)
    THEN <<url[(CHOOSE p \in 1..Len(url) : SiteLocaleAt(url, p)) + 1],
           url[(CHOOSE p \in 1..Len(url) : SiteLocaleAt(url, p)) + 3]>>
         \o SubSeq(url, (CHOOSE p \in 1..Len(url) : SiteLocaleAt(url, p)) + 5, Len(url))
    ELSE <<"O", "K">>
SWResponses(request) ==
    { [status |-> 200, body |-> BackendBody(request.url)], [status |-> 500, body |-> <<"E">>],
      [status |-> 0, body |-> <<>>] }

\* the storage when the worker starts to serve: the offline page of the install step, and
\* possibly fragments stored by earlier navigations of two sites
Rendered(siteId, locale, action) ==
    [status |-> 200, body |-> BackendBody(SiteRoute(siteId, locale, action))]
SWInitialCaches ==
    LET fresh == CachePut(EmptyCache, OFFLINE_URL, OfflinePage)
        used == CachePut(CachePut(CachePut(fresh,
                    KeyOf(<<"A">>, <<"en">>, <<"header">>),
                    Rendered(<<"A">>, <<"en">>, "Page-IncludeHeaderMenu")),
                    KeyOf(<<"B">>, <<"fr">>, <<"header">>),
                    Rendered(<<"B">>, <<"fr">>, "Page-IncludeHeaderMenu")),
                    KeyOf(<<"A">>, <<"en">>, <<"WishlistShow">>),
                    Rendered(<<"A">>, <<"en">>, "Wishlist-Show"))
    IN  {<<[name |-> CACHE_ID, store |-> fresh]>>, <<[name |-> CACHE_ID, store |-> used]>>}

SWInit ==
    /\ cachedParts = ShippedParts
    /\ caches \in SWInitialCaches
    /\ events = <<>>
    /\ lastClean = NoClean
    /\ GenIdle
    /\ cancelled = FALSE
    /\ cacheFault = "none"
    /\ ScanIdle
    /\ StreamIdle

\* the ways cache storage can be unavailable: caches.open rejects (lines 203, 235, 250, 281),
\* or the cache opens and cache.keys rejects (line 204)
CacheFaults == {"none", "open", "keys"}
OpenFails == cacheFault = "open"
\* a rejection inside cleanTriggeredCache: for a navigation it lands in the catch of
\* respondToNavigation (lines 234-237), which opens the cache and looks the offline page
\* up; for a same-origin request only the promise given to waitUntil rejects (line 336)
CleanFailed(cs, at) ==
    IF at = "navigate" /\ ~OpenFails THEN CachesOpen(cs, CACHE_ID) ELSE cs
CleanFailedAnswer(cs, at) ==
    IF at # "navigate" THEN "none"
    ELSE IF OpenFails THEN "error"
    ELSE OfflineAnswer(cs)

\* the key of a keyed-AJAX request, line 252
AjaxKey(request, config) == KeyOf(request.siteId.v, request.locale.v, ShippedUrls[config].cacheSuffix)
\* the branch the listener takes, lines 333-341
Dispatch(request) ==
    IF isSameOrigin(request.url) /\ getAjaxCacheConfig(request) # 0 THEN "ajax"
    ELSE IF request.mode = "same-origin" THEN "clean"
    ELSE IF request.mode = "navigate" THEN "navigate"
    ELSE IF isCacheableStatic(request) THEN "static"
    ELSE "done"
\* an earlier request for the same key, not invalidated since it arrived
SameKey(e, key) == e.key = key /\ ~e.inval
NewEvent(request, branch) ==
    [ req |-> request, pc |-> branch, config |-> getAjaxCacheConfig(request),
      key |-> IF branch = "ajax" THEN AjaxKey(request, getAjaxCacheConfig(request)) ELSE <<>>,
      answer |-> "none", resp |-> [status |-> 0, body |-> <<>>],
      fetches |-> 0, writes |-> 0, inval |-> FALSE, stale |-> FALSE,
      prior |-> FALSE, priorWritten |-> FALSE, cleaned |-> FALSE, status |-> "none" ]
\* what the history of the earlier requests says about a request that arrives now
WithPriors(e) ==
    [e EXCEPT !.prior = e.pc = "ajax" /\ \E j \in 1..Len(events) :
                            /\ SameKey(events[j], e.key)
                            /\ events[j].answer \in {"cache", "network"}
                            /\ Ok(events[j].resp),
              !.priorWritten = e.pc = "ajax" /\ \E j \in 1..Len(events) :
                            /\ SameKey(events[j], e.key)
                            /\ events[j].writes > 0]

\* the 'fetch' listener, lines 329-342
Arrives(requests) ==
    /\ Len(events) < MaxRequests
    /\ \E request \in requests :
          events' = Append(events, WithPriors(NewEvent(request, Dispatch(request))))
    /\ UNCHANGED <<extVars, cachedParts, scanVars, navInputs, caches, streamVars, lastClean>>
FetchEvent == Arrives(SWRequests)

\* respondToAjax, line 253: cache.match(key) on the cache of CACHE_ID
AjaxCached_Miss(cs, key) == Null
AjaxCached(cs, key) == CacheMatch(StoreOf(cs, CACHE_ID), key)

\* respondToAjax, lines 250-255
AjaxLookup(i) ==
    /\ events[i].pc = "ajax"
    /\ caches' = (IF OpenFails THEN caches ELSE CachesOpen(caches, CACHE_ID))
    /\ IF OpenFails
       THEN events' = [events EXCEPT ![i].pc = "done", ![i].answer = "error"]
       ELSE IF ~AjaxCached(caches', events[i].key).isNull
       THEN events' = [events EXCEPT ![i].pc = "done", ![i].answer = "cache",
                                     ![i].resp = AjaxCached(caches', events[i].key).v]
       ELSE events' = [events EXCEPT ![i].pc = "ajaxFetch"]
    /\ UNCHANGED <<extVars, cachedParts, scanVars, navInputs, streamVars, lastClean>>

\* respondToAjax, lines 257-263: the fetch; the put is handed to waitUntil and not awaited
AjaxFetch(i) ==
    /\ events[i].pc = "ajaxFetch"
    /\ \E resp \in SWResponses(events[i].req) :
          events' = [events EXCEPT
                        ![i].fetches = @ + 1,
                        ![i].resp = resp,
                        ![i].answer = IF resp.status = 0 THEN "rejected" ELSE "network",
                        ![i].pc = IF Ok(resp) THEN "ajaxPut" ELSE "done"]
    /\ UNCHANGED <<extVars, cachedParts, scanVars, navInputs, caches, streamVars, lastClean>>

\* respondToAjax, line 260: the cache.put of waitUntil completes
AjaxPut(i) ==
    /\ events[i].pc = "ajaxPut"
    /\ caches' = WithStore(caches, CACHE_ID,
                           CachePut(StoreOf(caches, CACHE_ID), events[i].key, events[i].resp))
    /\ events' = [events EXCEPT ![i].pc = "done", ![i].writes = @ + 1]
    /\ UNCHANGED <<extVars, cachedParts, scanVars, navInputs, streamVars, lastClean>>

\* the suffix of a keyed-AJAX event is one the run of cleanTriggeredCache is for
Invalidated(e, url) ==
    /\ e.config # 0
    /\ \E j \in 1..Len(TriggeredSuffixes(cacheCleanUrls, url)) :
          TriggeredSuffixes(cacheCleanUrls, url)[j] = ShippedUrls[e.config].cacheSuffix
\* the response of a keyed-AJAX event was fetched and is not stored yet when the run of
\* cleanTriggeredCache for url deletes the entries of its suffix (history, read by no guard)
FetchedBefore(e, url) == e.pc = "ajaxPut" /\ Invalidated(e, url)
\* cleanTriggeredCache for a same-origin request (line 336), and as the first step of
\* respondToNavigation (line 226)
CleanTriggered(i) ==
    /\ events[i].pc \in {"clean", "navigate"}
    /\ IF cacheFault = "none"
       THEN /\ caches' = cleanTriggeredCache(caches, events[i].req.url)
            /\ lastClean' = [ran |-> TRUE, url |-> events[i].req.url,
                             before |-> StoreOf(caches, CACHE_ID), after |-> StoreOf(caches', CACHE_ID)]
            /\ events' = [j \in 1..Len(events) |->
                            IF j = i
                            THEN [events[j] EXCEPT !.cleaned = TRUE,
                                     !.pc = IF events[i].pc = "navigate" THEN "navFetch" ELSE "done"]
                            ELSE [events[j] EXCEPT
                                     !.inval = @ \/ Invalidated(events[j], events[i].req.url),
                                     !.stale = @ \/ FetchedBefore(events[j], events[i].req.url)]]
       ELSE /\ caches' = CleanFailed(caches, events[i].pc)
            /\ events' = [events EXCEPT ![i].pc = "done",
                                        ![i].answer = CleanFailedAnswer(caches', events[i].pc)]
            /\ UNCHANGED lastClean
    /\ UNCHANGED <<extVars, cachedParts, scanVars, navInputs, streamVars>>

\* respondToNavigation, lines 227-237: the fetch and the choice of the answer; the stream
\* that answers the page is the one of Spec
NavAnswered(i) ==
    /\ events[i].pc = "navFetch"
    /\ \E r \in NavResponses :
          /\ events' = [events EXCEPT ![i].pc = "done", ![i].status = r, ![i].fetches = @ + 1,
                                      ![i].answer = NavAnswer(r, caches)]
          /\ caches' = IF r = "reject" THEN CachesOpen(caches, CACHE_ID) ELSE caches
    /\ UNCHANGED <<extVars, cachedParts, scanVars, navInputs, streamVars, lastClean>>

\* respondToStatic, lines 281-283
StaticLookup(i) ==
    /\ events[i].pc = "static"
    /\ caches' = (IF OpenFails THEN caches ELSE CachesOpen(caches, CACHE_ID))
    /\ IF OpenFails
       THEN events' = [events EXCEPT ![i].pc = "done", ![i].answer = "error"]
       ELSE IF ~CacheMatch(StoreOf(caches', CACHE_ID), events[i].req.url).isNull
       THEN events' = [events EXCEPT ![i].pc = "done", ![i].answer = "cache",
                          ![i].resp = CacheMatch(StoreOf(caches', CACHE_ID), events[i].req.url).v]
       ELSE events' = [events EXCEPT ![i].pc = "staticFetch"]
    /\ UNCHANGED <<extVars, cachedParts, scanVars, navInputs, streamVars, lastClean>>

\* respondToStatic, lines 284-289: the fetch; the put is not awaited
StaticFetch(i) ==
    /\ events[i].pc = "staticFetch"
    /\ \E resp \in SWResponses(events[i].req) :
          events' = [events EXCEPT
                        ![i].fetches = @ + 1,
                        ![i].resp = resp,
                        ![i].answer = IF resp.status = 0 THEN "rejected" ELSE "network",
                        ![i].pc = IF Ok(resp) THEN "staticPut" ELSE "done"]
    /\ UNCHANGED <<extVars, cachedParts, scanVars, navInputs, caches, streamVars, lastClean>>

\* respondToStatic, line 287: the cache.put completes
StaticPut(i) ==
    /\ events[i].pc = "staticPut"
    /\ caches' = WithStore(caches, CACHE_ID,
                           CachePut(StoreOf(caches, CACHE_ID), events[i].req.url, events[i].resp))
    /\ events' = [events EXCEPT ![i].pc = "done", ![i].writes = @ + 1]
    /\ UNCHANGED <<extVars, cachedParts, scanVars, navInputs, streamVars, lastClean>>

SWNext ==
    \/ FetchEvent
    \/ \E i \in 1..Len(events) : AjaxLookup(i)
    \/ \E i \in 1..Len(events) : AjaxFetch(i)
    \/ \E i \in 1..Len(events) : AjaxPut(i)
    \/ \E i \in 1..Len(events) : CleanTriggered(i)
    \/ \E i \in 1..Len(events) : NavAnswered(i)
    \/ \E i \in 1..Len(events) : StaticLookup(i)
    \/ \E i \in 1..Len(events) : StaticFetch(i)
    \/ \E i \in 1..Len(events) : StaticPut(i)
SpecSW == SWInit /\ [][SWNext]_vars

(***************************************************************************)
(* Claims about invalidation and the keyed-AJAX strategy                   *)
(***************************************************************************)
\* the stored request is keyed site.locale.suffix
KeyedBy(u, suffix) ==
    /\ Len(u) > Len(suffix)
    /\ SubSeq(u, Len(u) - Len(suffix), Len(u)) = <<".">> \o suffix
SuffixesOfLastClean ==
    {TriggeredSuffixes(cacheCleanUrls, lastClean.url)[j] :
        j \in 1..Len(TriggeredSuffixes(cacheCleanUrls, lastClean.url))}

\* C4: after cleanTriggeredCache ran for a request whose normalized URL contains a trigger,
\* the cache of the active generation holds no entry keyed by one of the trigger's suffixes,
\* whatever the site and locale, and every other entry (other suffixes, static assets, the
\* offline page) is still there, unchanged.
C4_CleanRemovesOnlyTriggeredSuffixes ==
    (lastClean.ran /\ SuffixesOfLastClean # {}) =>
        /\ \A u \in DOMAIN lastClean.after : \A sfx \in SuffixesOfLastClean : ~KeyedBy(u, sfx)
        /\ \A u \in DOMAIN lastClean.before :
              (\A sfx \in SuffixesOfLastClean : ~KeyedBy(u, sfx)) =>
                  /\ u \in DOMAIN lastClean.after
                  /\ lastClean.after[u] = lastClean.before[u]

AjaxEvents == {i \in 1..Len(events) : events[i].config # 0}
Answered(e) == e.answer \in {"cache", "network", "rejected"}
\* a request served from the network fetched once, and wrote once when the response was ok
OneFetchOneWrite(e) ==
    /\ e.fetches <= 1
    /\ e.writes <= 1
    /\ e.answer \in {"network", "rejected"} => e.fetches = 1
    /\ e.answer = "cache" => e.fetches = 0 /\ e.writes = 0
    /\ (e.pc = "done" /\ e.answer = "network" /\ Ok(e.resp)) => e.writes = 1
    /\ e.writes = 1 => Ok(e.resp)

\* C5: the first request for a key causes exactly one fetch and, when the response is
\* successful, one cache write; a second identical request made after the first was answered
\* and before any invalidation is answered from the cache and causes no fetch.
C5_SecondAfterAnswerServedFromCache ==
    \A i \in AjaxEvents :
        /\ OneFetchOneWrite(events[i])
        /\ (events[i].prior /\ ~events[i].inval /\ Answered(events[i])) =>
              events[i].answer = "cache" /\ events[i].fetches = 0

\* C5 as amended: the first request for a key causes exactly one fetch and, when the
\* response is successful, one cache write; a second identical request made after that
\* write has completed and before any invalidation is answered from the cache and causes
\* no fetch.
C5_SecondAfterWriteServedFromCache ==
    \A i \in AjaxEvents :
        /\ OneFetchOneWrite(events[i])
        /\ (events[i].priorWritten /\ ~events[i].inval /\ Answered(events[i])) =>
              events[i].answer = "cache" /\ events[i].fetches = 0
C5_Witness ==
    \E i \in AjaxEvents : \E j \in AjaxEvents :
        /\ j < i
        /\ events[j].key = events[i].key
        /\ events[j].answer = "network"
        /\ events[j].writes = 1
        /\ events[i].priorWritten
        /\ ~events[i].inval
        /\ events[i].answer = "cache"

(***************************************************************************)
(* One worker from install to serving, on storage that an earlier          *)
(* generation left behind                                                  *)
(***************************************************************************)
\* CACHE_ID of the worker of the previous build
OLD_CACHE_ID == "Build-0_dw0"
MaxResolutions == 1
MaxServed == 1
OldHeader == [status |-> 200, body |-> <<"O", "L", "D">>]
\* what the previous generation stored
OldCache ==
    [ name |-> OLD_CACHE_ID,
      store |-> CachePut(CachePut(EmptyCache, OFFLINE_URL, OfflinePage),
                         KeyOf(<<"A">>, <<"en">>, <<"header">>), OldHeader) ]
\* what an enabled worker of the same build and cache version stored
OwnCache ==
    [ name |-> CACHE_ID,
      store |-> CachePut(EmptyCache, KeyOf(<<"A">>, <<"en">>, <<"WishlistShow">>),
                         [status |-> 200, body |-> <<"W">>]) ]
GenInitialCaches == {<<>>, <<OldCache>>, <<OldCache, OwnCache>>}

GenInit ==
    /\ cachedParts = ShippedParts
    /\ caches \in GenInitialCaches
    /\ worker \in {[NoWorker EXCEPT !.phase = "parsed", !.enabled = e] : e \in BOOLEAN}
    /\ cleanup = NoCleanup
    /\ oldw \in IF HasCache(caches, OLD_CACHE_ID) THEN {"none", "fetched"} ELSE {"none"}
    /\ cancelled = FALSE
    /\ cacheFault = "none"
    /\ events = <<>>
    /\ lastClean = NoClean
    /\ navUrl = <<>>
    /\ body = <<>>
    /\ net = NetOf([status |-> 200, body |-> <<"H", "D", "R">>],
                   [status |-> 500, body |-> <<"E">>])
    /\ ident = [siteId |-> <<"A">>, locale |-> <<"en">>]
    /\ answer = "none"
    /\ pc = "idle"
    /\ queue = <<>>
    /\ awaiting = NoEntry
    /\ item = NoItem
    /\ sdone = FALSE
    /\ out = <<>>
    /\ rd = NoRead
    /\ part = NoPart
    /\ upos = 0
    /\ nreads = 0
    /\ hist = NoHist
    /\ ScanIdle

\* the 'install' listener, lines 292-315, up to its first await
Install ==
    /\ worker.phase = "parsed"
    /\ IF worker.enabled
       THEN /\ worker' = [worker EXCEPT !.phase = "installing", !.skipWaiting = TRUE]
            /\ UNCHANGED cleanup
       ELSE /\ worker' = [worker EXCEPT !.phase = "unregistering"]
            /\ cleanup' = [st |-> "keys", names |-> {}]
    /\ UNCHANGED <<cachedParts, scanVars, navInputs, caches, streamVars, swVars, oldw, cancelled, cacheFault>>

\* precacheOfflinePage, lines 188-191: cache.add rejects when the page cannot be fetched,
\* and the install fails
precacheOfflinePage ==
    /\ worker.phase = "installing"
    /\ \E fetched \in BOOLEAN :
          IF fetched
          THEN /\ caches' = WithStore(caches, CACHE_ID,
                                      CachePut(StoreOf(caches, CACHE_ID), OFFLINE_URL, OfflinePage))
               /\ worker' = [worker EXCEPT !.phase = "installed"]
          ELSE /\ caches' = CachesOpen(caches, CACHE_ID)
               /\ worker' = [worker EXCEPT !.phase = "redundant"]
    /\ UNCHANGED <<cachedParts, scanVars, navInputs, streamVars, swVars, cleanup, oldw, cancelled, cacheFault>>

\* install with the flag off, lines 301-307: unregister, then navigate the clients
Unregister ==
    /\ worker.phase = "unregistering"
    /\ worker' = [worker EXCEPT !.phase = "unregistered", !.registered = FALSE, !.navigated = TRUE]
    /\ UNCHANGED <<cachedParts, scanVars, navInputs, caches, streamVars, swVars, cleanup, oldw,
                   cancelled, cacheFault>>

\* the 'activate' listener, lines 317-327: clearOldCaches is called and not awaited
Activate ==
    /\ worker.phase = "installed"
    /\ worker' = [worker EXCEPT !.phase = "active"]
    /\ cleanup' = [st |-> "keys", names |-> {}]
    /\ UNCHANGED <<cachedParts, scanVars, navInputs, caches, streamVars, swVars, oldw, cancelled, cacheFault>>

\* clearOldCaches, lines 165-166: the names that are not CACHE_ID
clearOldCaches_All(cs) == {cs[j].name : j \in 1..Len(cs)}
clearOldCaches(cs) == {cs[j].name : j \in 1..Len(cs)} \ {CACHE_ID}
ClearKeys ==
    /\ cleanup.st = "keys"
    /\ cleanup' = [st |-> IF clearOldCaches(caches) = {} THEN "done" ELSE "deleting",
                   names |-> clearOldCaches(caches)]
    /\ UNCHANGED <<cachedParts, scanVars, navInputs, caches, streamVars, swVars, worker, oldw,
                   cancelled, cacheFault>>
\* clearOldCaches, line 166: one caches.delete(n) of the Promise.all
ClearDelete ==
    /\ cleanup.st = "deleting"
    /\ \E n \in cleanup.names :
          /\ caches' = CachesDelete(caches, n)
          /\ cleanup' = [st |-> IF cleanup.names = {n} THEN "done" ELSE "deleting",
                         names |-> cleanup.names \ {n}]
    /\ UNCHANGED <<cachedParts, scanVars, navInputs, streamVars, swVars, worker, oldw, cancelled, cacheFault>>

\* fetchOrCachePart of the previous generation's worker, lines 188-189, for a fragment it
\* fetched before this worker took over
OldPartPut ==
    /\ oldw = "fetched"
    /\ caches' = WithStore(caches, OLD_CACHE_ID,
                           CachePut(StoreOf(caches, OLD_CACHE_ID),
                                    KeyOf(<<"A">>, <<"en">>, <<"header">>), OldHeader))
    /\ oldw' = "done"
    /\ UNCHANGED <<cachedParts, scanVars, navInputs, streamVars, swVars, worker, cleanup, cancelled, cacheFault>>

\* the worker serves once it is active: a fetch event arrives
Serve ==
    /\ worker.phase = "active"
    /\ Len(events) < MaxServed
    /\ FetchEvent
\* pull, line 273, for a page that holds the placeholder of config k
Resolve ==
    /\ worker.phase = "active"
    /\ part.st \in {"none", "fulfilled", "rejected"}
    /\ hist.parts < MaxResolutions
    /\ \E k \in 1..Len(cachedParts) :
          part' = CalledPart(Tag(cachedParts[k].placeholder),
                             [NoMatch EXCEPT !.found = TRUE, !.config = k])
    /\ hist' = [hist EXCEPT !.parts = @ + 1]
    /\ UNCHANGED <<extVars, swVars, cachedParts, scanVars, navInputs, caches, answer, pc, queue,
                   awaiting, item, sdone, out, rd, upos, nreads>>

GenNext ==
    \/ Install
    \/ precacheOfflinePage
    \/ Unregister
    \/ Activate
    \/ ClearKeys
    \/ ClearDelete
    \/ OldPartPut
    \/ Serve
    \/ Resolve
    \/ PartMatch
    \/ PartFetch
    \/ PartPut
    \/ \E i \in 1..Len(events) : AjaxLookup(i)
    \/ \E i \in 1..Len(events) : AjaxFetch(i)
    \/ \E i \in 1..Len(events) : AjaxPut(i)
    \/ \E i \in 1..Len(events) : CleanTriggered(i)
    \/ \E i \in 1..Len(events) : NavAnswered(i)
    \/ \E i \in 1..Len(events) : StaticLookup(i)
    \/ \E i \in 1..Len(events) : StaticFetch(i)
    \/ \E i \in 1..Len(events) : StaticPut(i)
SpecGen == GenInit /\ [][GenNext]_vars

(***************************************************************************)
(* Claims about generations                                                *)
(***************************************************************************)
\* the entry the cache of the worker's own generation holds for a key
OwnEntry(key) == CacheMatch(StoreOf(caches, CACHE_ID), key)
LookupKey(e) == IF e.pc = "ajax" THEN e.key ELSE e.req.url

\* C11: no lookup the serving worker performs (keyed AJAX, static asset, fragment
\* resolution, offline page) returns an entry stored under another generation's
\* identifier, also while storage of an older generation has not yet been deleted:
\* whatever a lookup returns is the entry of the cache named CACHE_ID.
C11_LookupsReturnOwnGeneration ==
    [][ /\ (part.st = "match" /\ part'.st = "fulfilled") => OwnEntry(part.key) = Some(part'.resp)
        /\ \A i \in 1..Len(events) :
              /\ (events[i].pc \in {"ajax", "static"} /\ events'[i].answer = "cache") =>
                    OwnEntry(LookupKey(events[i])) = Some(events'[i].resp)
              /\ (events[i].pc = "navFetch" /\ events'[i].answer = "offline") =>
                    OwnEntry(OFFLINE_URL) = Some(OfflinePage) ]_vars

\* the names of the caches that exist
CacheNames == {caches[j].name : j \in 1..Len(caches)}

\* C12: once the activated worker's cleanup of the other generations' storage has
\* finished, only the storage named by its own identifier exists, in that state and in
\* every later one, also while the previous generation's worker still has a fragment
\* fetch in flight.
C12_OnlyOwnGenerationAfterCleanup ==
    (worker.phase = "active" /\ cleanup.st = "done") => CacheNames \subseteq {CACHE_ID}

C14_KillSwitchLeavesNoEntries ==
    (~worker.enabled /\ worker.phase = "unregistered" /\ cleanup.st = "done") =>
        /\ ~worker.registered
        /\ worker.navigated
        /\ ~worker.skipWaiting
        /\ \A j \in 1..Len(caches) : DOMAIN caches[j].store = {}

(***************************************************************************)
(* The consumer cancels the stream of a navigation                         *)
(***************************************************************************)
\* cancel, line 279: this.queue = []
CancelQueue_Keep(q) == q
CancelQueue(q) == <<>>
\* cancel(), lines 277-280; it arrives while pull waits for a promise of the queue
Cancel ==
    /\ pc \in {"awaitItem", "awaitNext"}
    /\ ~cancelled
    /\ cancelled' = TRUE
    /\ sdone' = TRUE
    /\ queue' = CancelQueue(queue)
    /\ UNCHANGED <<genVars, cacheFault, swVars, cachedParts, scanVars, navInputs, caches, answer, pc, awaiting,
                   item, out, rd, part, upos, nreads, hist>>
\* one navigation of site A: the header is fetched and stored, the footer fetch fails
CancelInit ==
    /\ cachedParts = ShippedParts
    /\ navUrl = PageUrl("Home-Show")
    /\ body \in {Tag(b) : b \in Buffers(cachedParts, MaxPieces)}
    /\ net = NetOf([status |-> 200, body |-> <<"H", "D", "R">>], [status |-> 0, body |-> <<>>])
    /\ ident = [siteId |-> <<"A">>, locale |-> <<"en">>]
    /\ caches = <<[name |-> CACHE_ID, store |-> CachePut(EmptyCache, OFFLINE_URL, OfflinePage)]>>
    /\ answer = "none"
    /\ pc = "nav"
    /\ queue = <<>>
    /\ awaiting = NoEntry
    /\ item = NoItem
    /\ sdone = FALSE
    /\ out = <<>>
    /\ rd = NoRead
    /\ part = NoPart
    /\ upos = 0
    /\ nreads = 0
    /\ hist = NoHist
    /\ ScanIdle
    /\ SWIdle
CancelNext ==
    \/ Next
    \/ Cancel
SpecCancel == CancelInit /\ [][CancelNext]_vars

\* C15: once the consumer has cancelled, at whatever await of the pull in progress, the
\* rewriter issues no further upstream read, calls fetchOrCachePart for no further
\* fragment, enqueues nothing more and its queue is and stays empty; a fragment
\* resolution that was in flight may still complete and write to the cache.
C15_NothingStartedAfterCancel ==
    [][ /\ cancelled' => queue' = <<>>
        /\ cancelled =>
              /\ rd'.st = "pending" => rd.st = "pending"
              /\ hist'.parts = hist.parts
              /\ hist'.fetches > hist.fetches => part.st = "fetch"
              /\ out' = out ]_vars
C15_Witness ==
    /\ cancelled
    /\ pc = "errored"
    /\ hist.late
    /\ ~OwnEntry(StoredFragment(1)).isNull
    /\ rd.st = "fulfilled"
    /\ queue = <<>>

(***************************************************************************)
(* Claims about the dispatch of the fetch listener and the strategies      *)
(***************************************************************************)
\* the events the listener has finished with
Finished(i) == events[i].pc = "done"

\* C16: every intercepted same-origin request that the keyed-AJAX strategy does not
\* handle has cleanTriggeredCache run for it, whatever its mode or destination, and
\* unless it is a navigation the worker does not answer it.
C16_SameOriginAlwaysChecksTriggers ==
    \A i \in 1..Len(events) :
        (Finished(i) /\ isSameOrigin(events[i].req.url) /\ events[i].config = 0) =>
            /\ events[i].cleaned
            /\ events[i].req.mode # "navigate" => events[i].answer = "none"

(***************************************************************************)
(* The keyed cache shared by the AJAX requests and the pages of several    *)
(* sites and locales                                                       *)
(***************************************************************************)
Idents == { [siteId |-> <<"A">>, locale |-> <<"en">>], [siteId |-> <<"A">>, locale |-> <<"fr">>],
            [siteId |-> <<"B">>, locale |-> <<"fr">>] }
\* the identities of the pages: one whose header the cache holds, one whose header it does not
PageIdents == { [siteId |-> <<"A">>, locale |-> <<"en">>], [siteId |-> <<"A">>, locale |-> <<"fr">>] }
\* the AJAX requests of the sites, and two that miss an identity header
KeyedRequests ==
    { AjaxRequest(id.siteId, id.locale, "Cart-MiniCartShow") : id \in Idents } \cup
    { [AjaxRequest(<<"A">>, <<"en">>, "Cart-MiniCartShow") EXCEPT !.siteId = Null],
      [AjaxRequest(<<"B">>, <<"fr">>, "Cart-MiniCartShow") EXCEPT !.locale = Null] }
\* the fragment URLs of the sites, each answered with what the backend renders for it
KeyedNet ==
    [u \in {LocalizedUrl(ShippedParts[k].url, urlSiteId, urlLocale, id.siteId, id.locale) :
               k \in 1..Len(ShippedParts), id \in Idents} |->
        [status |-> 200, body |-> BackendBody(u)]]
KeyedInit ==
    /\ cachedParts = ShippedParts
    /\ caches \in {c \in SWInitialCaches : Cardinality(DOMAIN StoreOf(c, CACHE_ID)) > 1}
    /\ events = <<>>
    /\ lastClean = NoClean
    /\ GenIdle
    /\ cancelled = FALSE
    /\ cacheFault = "none"
    /\ navUrl = <<>>
    /\ body = <<>>
    /\ net = KeyedNet
    /\ ident \in {id \in PageIdents : id.siteId = urlSiteId /\ id.locale = urlLocale}
    /\ answer = "none"
    /\ pc = "idle"
    /\ queue = <<>>
    /\ awaiting = NoEntry
    /\ item = NoItem
    /\ sdone = FALSE
    /\ out = <<>>
    /\ rd = NoRead
    /\ part = NoPart
    /\ upos = 0
    /\ nreads = 0
    /\ hist = NoHist
    /\ ScanIdle
\* createStream, lines 226-228, and pull, line 273: a page answered with the identity
\* headers of its site and locale holds the placeholder of the header
PageResolve ==
    /\ part.st \in {"none", "fulfilled", "rejected"}
    /\ hist.parts < MaxResolutions
    /\ \E id \in PageIdents :
          /\ ident' = id
          /\ part' = CalledPartOf(id, Tag(HeaderPlaceholder),
                                  [NoMatch EXCEPT !.found = TRUE,
                                       !.config = CHOOSE k \in 1..Len(cachedParts) :
                                                     cachedParts[k].placeholder = HeaderPlaceholder])
    /\ hist' = [hist EXCEPT !.parts = @ + 1]
    /\ UNCHANGED <<extVars, swVars, cachedParts, scanVars, navUrl, body, net, caches, answer, pc,
                   queue, awaiting, item, sdone, out, rd, upos, nreads>>
KeyedNext ==
    \/ Arrives(KeyedRequests)
    \/ \E i \in 1..Len(events) : AjaxLookup(i)
    \/ \E i \in 1..Len(events) : AjaxFetch(i)
    \/ \E i \in 1..Len(events) : AjaxPut(i)
    \/ PageResolve
    \/ PartMatch
    \/ PartFetch
    \/ PartPut
SpecKeyed == KeyedInit /\ [][KeyedNext]_vars

\* the identity headers of a request are both present
HasIdentity(request) == ~request.siteId.isNull /\ ~request.locale.isNull

\* C17: a keyed entry is returned only to the site, locale and suffix it was stored
\* under: what a request or a page gets from the keyed cache is what the backend renders
\* for its own site and locale, and a request that misses an identity header is neither
\* served from the keyed cache nor written to it.
C17_KeyedEntriesServeOwnIdentity ==
    /\ \A i \in 1..Len(events) :
          /\ (events[i].answer = "cache" /\ events[i].config # 0) =>
                /\ HasIdentity(events[i].req)
                /\ events[i].resp.body = BackendBody(events[i].req.url)
          /\ ~HasIdentity(events[i].req) =>
                /\ events[i].config = 0
                /\ events[i].answer # "cache"
                /\ events[i].writes = 0
    /\ (part.st = "fulfilled" /\ Ok(part.resp)) =>
          part.resp.body = BackendBody(FragmentUrl(part.config))
C17_Witness ==
    /\ Len(events) = 2
    /\ events[1].writes = 1
    /\ events[2].key = events[1].key
    /\ events[2].answer = "cache"
    /\ part.st = "fulfilled"
    /\ ident.locale = <<"fr">>
    /\ hist.fetches = 1
    /\ ~OwnEntry(KeyOf(<<"A">>, <<"en">>, <<"header">>)).isNull


\* C18: when the fetch of a navigation is issued, cleanTriggeredCache has finished for
\* it, and when the fetch completes the answer is chosen by the status alone: the
\* auth-recovery page for 401, the response itself, never the stream, for 301, 302 and an
\* opaque redirect, and the stream of createStream for every other response.
C18_NavigationAnsweredByStatus ==
    [][ \A i \in 1..Len(events) :
           (events[i].req.mode = "navigate" /\ events'[i].fetches > events[i].fetches) =>
               /\ events[i].cleaned
               /\ lastClean.ran
               /\ events'[i].status = "401" => events'[i].answer = "auth"
               /\ events'[i].status \in {"301", "302", "opaqueredirect"} =>
                     events'[i].answer = "redirect"
               /\ events'[i].status \in {"200", "500"} => events'[i].answer = "stream" ]_vars
C18_Witness ==
    \E i \in 1..Len(events) :
        /\ events[i].status = "opaqueredirect"
        /\ events[i].answer = "redirect"
        /\ events[i].cleaned
        /\ lastClean.before # lastClean.after


\* a status that indicates success
SuccessStatus(status) == status \in 200..299

\* C19: a fragment resolution that finds its key stored returns the stored bytes and
\* fetches nothing; one that misses fetches exactly once and stores the response, under
\* siteId.locale.cacheSuffix in the cache named CACHE_ID, exactly when its status
\* indicates success; and no strategy (fragment, keyed AJAX, static) ever stores a
\* response whose status does not indicate success.
C19_FragmentHitMissAndSuccessOnlyWrites ==
    [][ /\ (part.st = "match" /\ part'.st # "match") =>
              /\ part'.hit = ~CachesMatch(caches, part.key).isNull
              /\ part'.hit =>
                    /\ part'.st = "fulfilled"
                    /\ part'.resp = CachesMatch(caches, part.key).v
                    /\ Chars(part'.data) = part'.resp.body
        /\ part'.hit => part'.fetches = 0 /\ ~part'.wrote
        /\ (~part'.hit /\ part'.st \in {"put", "fulfilled", "rejected"}) => part'.fetches = 1
        /\ (part'.wrote /\ ~part.wrote) =>
              caches' = WithStore(caches, CACHE_ID,
                                  CachePut(StoreOf(caches, CACHE_ID),
                                           KeyOf(ident.siteId, ident.locale,
                                                 cachedParts[part.config].cacheSuffix),
                                           part.resp))
        /\ part'.wrote => SuccessStatus(part'.resp.status)
        /\ (part'.st = "fulfilled" /\ ~part'.hit /\ ~part'.wrote) =>
              ~SuccessStatus(part'.resp.status)
        /\ \A j \in 1..Len(caches') : \A key \in DOMAIN caches'[j].store :
              SuccessStatus(caches'[j].store[key].status)
        /\ \A i \in 1..Len(events') :
              events'[i].writes > 0 => SuccessStatus(events'[i].resp.status) ]_vars
C19_Witness ==
    /\ part.st = "fulfilled"
    /\ ~part.hit
    /\ part.fetches = 1
    /\ part.resp.status = 500
    /\ OwnEntry(part.key).isNull
    /\ \E i \in 1..Len(events) :
          /\ Finished(i)
          /\ events[i].answer = "network"
          /\ events[i].resp.status = 500
          /\ events[i].writes = 0
          /\ OwnEntry(LookupKey(events[i])).isNull


(***************************************************************************)
(* Claims about a fragment whose resolution fails                          *)
(***************************************************************************)
\* the byte comes from the fragment fetched for the token at origin org
FromFragment(b, org) == Len(b.o) > Len(org) /\ SubSeq(b.o, 1, Len(org)) = org

\* C20: a fragment resolution that fails, by a network error or by a response whose
\* status does not indicate success, is fatal for the page: no byte of the body of the
\* failed response is emitted in place of the token, and the stream does not close as a
\* complete page.
C20_FailedFragmentIsFatal ==
    /\ \A j \in 1..Len(Emitted) : \A org \in hist.failed : ~FromFragment(Emitted[j], org)
    /\ hist.failed # {} => pc # "closed"


(***************************************************************************)
(* The strategies when cache storage is unavailable                        *)
(***************************************************************************)
\* the worker serves while cache storage works, or while one of its operations rejects
IOInit ==
    /\ cachedParts = ShippedParts
    /\ caches \in SWInitialCaches
    /\ events = <<>>
    /\ lastClean = NoClean
    /\ GenIdle
    /\ cancelled = FALSE
    /\ cacheFault \in CacheFaults
    /\ ScanIdle
    /\ StreamIdle
SpecIO == IOInit /\ [][SWNext]_vars

\* the request of event i ended without a response
Failed(i) == Finished(i) /\ events[i].answer = "error"
\* the navigation of event i was answered from the offline fallback although no fetch of
\* it was rejected
OfflineWithoutNetworkFailure(i) ==
    /\ Finished(i)
    /\ events[i].answer \in {"offline", "undefined"}
    /\ events[i].status # "reject"

\* C21: when cache storage is unavailable, every strategy treats it as a miss and answers
\* from the network: no keyed-AJAX, static or navigation request fails, and no navigation
\* is answered with the offline page, because of a cache failure alone.
C21_CacheFailureIsAMiss ==
    cacheFault # "none" =>
        \A i \in 1..Len(events) :
            Dispatch(events[i].req) \in {"ajax", "static", "navigate"} =>
                /\ ~Failed(i)
                /\ ~OfflineWithoutNetworkFailure(i)
                /\ Finished(i) => events[i].fetches > 0


(***************************************************************************)
(* A worker whose configuration holds a placeholder without the prefix     *)
(***************************************************************************)
\* the configuration of getInitConfig with the footer's placeholder written without '$sw'
UnprefixedPlaceholder == <<"$", "f", "o", "o", "t", "e", "r", "$">>
UnprefixedParts == [ShippedParts EXCEPT ![2].placeholder = UnprefixedPlaceholder]
ValidPlaceholders == \A k \in 1..Len(cachedParts) : StartsWithPrefix(cachedParts[k].placeholder)

\* the worker script has been evaluated with the shipped or the unprefixed configuration
StartupInit ==
    /\ cachedParts \in {ShippedParts, UnprefixedParts}
    /\ caches \in {<<>>, <<OldCache>>}
    /\ worker \in {[NoWorker EXCEPT !.phase = "parsed", !.enabled = e] : e \in BOOLEAN}
    /\ cleanup = NoCleanup
    /\ oldw = "none"
    /\ cancelled = FALSE
    /\ cacheFault = "none"
    /\ events = <<>>
    /\ lastClean = NoClean
    /\ ScanIdle
    /\ StreamIdle

\* respondToNavigation, line 233: createStream for the navigation that got a page
createStream ==
    /\ pc = "idle"
    /\ \E i \in 1..Len(events) : events[i].answer = "stream"
    /\ answer' = "stream"
    /\ pc' = "start"
    /\ UNCHANGED <<extVars, swVars, cachedParts, scanVars, navInputs, caches, queue, awaiting,
                   item, sdone, out, rd, part, upos, nreads, hist>>

StartupNext ==
    \/ Install
    \/ precacheOfflinePage
    \/ Unregister
    \/ Activate
    \/ ClearKeys
    \/ ClearDelete
    \/ Serve
    \/ createStream
    \/ Start
    \/ \E i \in 1..Len(events) : AjaxLookup(i)
    \/ \E i \in 1..Len(events) : AjaxFetch(i)
    \/ \E i \in 1..Len(events) : AjaxPut(i)
    \/ \E i \in 1..Len(events) : CleanTriggered(i)
    \/ \E i \in 1..Len(events) : NavAnswered(i)
    \/ \E i \in 1..Len(events) : StaticLookup(i)
    \/ \E i \in 1..Len(events) : StaticFetch(i)
    \/ \E i \in 1..Len(events) : StaticPut(i)
SpecStartup == StartupInit /\ [][StartupNext]_vars

\* C22: if a configured placeholder does not start with '$sw', initialization is aborted
\* at startup: the worker never handles a fetch event with that configuration.
C22_UnprefixedPlaceholderAbortsStartup ==
    ~ValidPlaceholders => events = <<>>


(***************************************************************************)
(* The scanner with two tokens that are viable at the same position        *)
(***************************************************************************)
MaxTiePieces == 2
\* '$swab' and '$swabc': after the prefix both are candidates while 'a', 'b' are read
ShorterPlaceholder == <<"$", "s", "w", "a", "b">>
LongerPlaceholder == <<"$", "s", "w", "a", "b", "c">>
TieParts == [ShippedParts EXCEPT ![1].placeholder = ShorterPlaceholder,
                                 ![2].placeholder = LongerPlaceholder]
\* the same tokens configured in either order
TieChoices == {TieParts, <<TieParts[2], TieParts[1]>>}
TieInit ==
    /\ cachedParts \in TieChoices
    /\ sbuf \in {Tag(b) : b \in Buffers(cachedParts, MaxTiePieces)}
    /\ scut \in 0..Len(sbuf)
    /\ spc = "start"
    /\ r1 = NoResult
    /\ r2 = NoResult
    /\ rw = NoResult
    /\ caches = <<>>
    /\ StreamIdle
    /\ SWIdle
SpecTie == TieInit /\ [][ScanNext]_vars

\* the configured tokens that lie at 0-based position t of the buffer
ViableAt(t) == {k \in 1..Len(cachedParts) : OccursAt(Chars(sbuf), cachedParts[k].placeholder, t)}
\* the report is the token of config k lying at [start, end]
ReportsToken(found, k) ==
    /\ found.config = k
    /\ OccursAt(Chars(sbuf), cachedParts[k].placeholder, found.start)
    /\ found.end = found.start + Len(cachedParts[k].placeholder) - 1

\* C23: when several configured tokens are viable at the same position, the scanner
\* reports the one that is completed first (the shortest), whatever the order of the
\* configuration, with the start and the end of that token.
C23_ShortestCompletedTokenReported ==
    (spc # "start" /\ rw.found.found) =>
        \E k \in 1..Len(cachedParts) :
            /\ ReportsToken(rw.found, k)
            /\ \A j \in ViableAt(rw.found.start) :
                  Len(cachedParts[k].placeholder) <= Len(cachedParts[j].placeholder)


\* C24: one pull of the consumer stops taking work items as soon as a chunk has been
\* emitted or the queue is empty; it reads no further upstream chunk and resolves no
\* further fragment before the consumer pulls again. The stream calls pull once and waits
\* for its promise, so every later pass through line 259 belongs to that one pull.
C24_PullStopsAfterEmission ==
    [][(pc = "pull" /\ Emitted # <<>>) => pc' # "awaitItem"]_vars


\* the token a resolution is called for begins at an upstream byte, not at a byte that an
\* earlier resolution delivered
TokenOfUpstream(p) == p.st # "none" => Len(p.org) = 1

\* C25: substitution is not nested: the bytes a fragment resolution delivers are emitted as
\* they are and never scanned, so a token inside a fragment causes no further resolution.
C25_FragmentsAreNotScanned ==
    TokenOfUpstream(part)


\* no other event of the run is for the key of event i
OnlyEventFor(i) == \A j \in 1..Len(events) : j # i => events[j].key # events[i].key

\* C26: a response fetched before an invalidation is never stored after it: when a keyed
\* miss has its fetch done and its store pending while cleanTriggeredCache deletes the
\* entries of its suffix, then once both have finished the cache holds no entry for the
\* key that carries that response.
C26_NoStoreAfterInvalidation ==
    \A i \in 1..Len(events) :
        (events[i].stale /\ Finished(i) /\ OnlyEventFor(i)) =>
            OwnEntry(events[i].key) # Some(events[i].resp)


(***************************************************************************)
(* The end of the body: bodies whose last buffer is scanned with the       *)
(* terminal read                                                           *)
(***************************************************************************)
\* bodies longer than LAST_BYTES_COUNT whose tail is carried over to the terminal read
LastBodies ==
    { <<"$">> \o FooterPlaceholder \o FooterPlaceholder,
      <<"x">> \o FooterPlaceholder \o FooterPlaceholder,
      Repeat(<<"x">>, LAST_BYTES_COUNT + 1) }
LastInit ==
    /\ cachedParts = ShippedParts
    /\ navUrl \in NavUrls
    /\ body \in {Tag(b) : b \in LastBodies}
    /\ net \in NetChoices
    /\ ident = [siteId |-> <<"A">>, locale |-> <<"en">>]
    /\ caches \in InitialCaches(net)
    /\ answer = "none"
    /\ pc = "nav"
    /\ queue = <<>>
    /\ awaiting = NoEntry
    /\ item = NoItem
    /\ sdone = FALSE
    /\ out = <<>>
    /\ rd = NoRead
    /\ part = NoPart
    /\ upos = 0
    /\ nreads = 0
    /\ hist = NoHist
    /\ ScanIdle
    /\ SWIdle
SpecLast == LastInit /\ [][Next]_vars

\* the upstream byte at 0-based position t has been emitted
UpstreamEmitted(t) == \E j \in 1..Len(Emitted) : Emitted[j].o = <<t>>
\* position t of the upstream body lies inside an occurrence of a configured token
InsideToken(t) ==
    \E kt \in Occurrences(Chars(body)) :
        kt[2] <= t /\ t < kt[2] + Len(cachedParts[kt[1]].placeholder)
\* nothing is left to do: no work item in the queue, no resolution under way
NothingOwed == queue = <<>> /\ part.st = "none" /\ rd.st = "none"

\* C27: the stream is never closed while work is owed: when the controller is closed
\* without cancellation, every upstream byte outside a matched token has been emitted, and
\* the fragment and the bytes after a token matched in the last buffer have been emitted.
C27_NothingOwedAtClose ==
    (pc = "closed" /\ ~cancelled) =>
        /\ NothingOwed
        /\ \A t \in 0..(Len(body) - 1) : ~InsideToken(t) => UpstreamEmitted(t)


(***************************************************************************)
(* Termination: fragments that hold a token of their own                   *)
(***************************************************************************)
\* the resolutions of one navigation the model follows
MaxNested == 4
\* the backend renders the header with its own placeholder in it
SelfNet == NetOf([status |-> 200, body |-> HeaderPlaceholder],
                 [status |-> 200, body |-> <<"F", "T", "R">>])
LoopBodies ==
    { HeaderPlaceholder, <<"x">> \o HeaderPlaceholder, FooterPlaceholder, <<"x">> }
LoopInit ==
    /\ cachedParts = ShippedParts
    /\ navUrl \in NavUrls
    /\ body \in {Tag(b) : b \in LoopBodies}
    /\ net \in NetChoices \cup {SelfNet}
    /\ ident = [siteId |-> <<"A">>, locale |-> <<"en">>]
    /\ caches \in InitialCaches(net)
    /\ answer = "none"
    /\ pc = "nav"
    /\ queue = <<>>
    /\ awaiting = NoEntry
    /\ item = NoItem
    /\ sdone = FALSE
    /\ out = <<>>
    /\ rd = NoRead
    /\ part = NoPart
    /\ upos = 0
    /\ nreads = 0
    /\ hist = NoHist
    /\ ScanIdle
    /\ SWIdle
\* the navigation is followed up to MaxNested resolutions
Followed == hist.parts < MaxNested
\* the steps whose continuation scans bytes or cache keys, and the other steps
ScanSteps == Followed /\ (NavClean \/ Process)
OtherSteps ==
    Followed /\ (NavFetch \/ Start \/ ReadSettles \/ PullEnter \/ ItemSettles \/ NextSettles
                   \/ PartMatch \/ PartFetch \/ PartPut)
LoopNext == ScanSteps \/ OtherSteps
\* ENABLED <<ScanSteps>>_vars: NavClean and Process have no guard but the place of the
\* navigation, and both leave it
ScanStepsEnabled == Followed /\ pc \in {"nav", "process"}
\* every continuation that can run is run by the event loop: weak fairness of both groups
\* of steps, written out for ScanSteps with its enabling condition
SpecLoop ==
    /\ LoopInit
    /\ [][LoopNext]_vars
    /\ WF_vars(OtherSteps)
    /\ ([]<>(~ScanStepsEnabled) \/ []<><<ScanSteps>>_vars)

QueuedAt(kind) == {j \in 1..Len(queue) : queue[j].kind = kind}
\* the stream is between two work items and neither finished nor cancelled
BetweenItems == pc = "pull" /\ ~sdone /\ ~cancelled

\* C29: while the stream is neither finished nor cancelled, between two work-item steps
\* the queue holds exactly one upstream read and it is the last item; so a carry-over
\* item has a following item, at most one fragment resolution is queued, and exactly one
\* reader.read() is outstanding, for the bytes that follow the ones already read.
C29_OneReadLastInQueue ==
    BetweenItems =>
        /\ QueuedAt("read") = {Len(queue)}
        /\ queue # <<>>
        /\ \A j \in 1..Len(queue) :
              (queue[j].kind = "value" /\ queue[j].it.merge) => j < Len(queue)
        /\ Cardinality(QueuedAt("part")) <= 1
        /\ rd.st # "none"
        /\ upos <= Len(body)
\* a carry-over cut from a fragment waits at the head of the queue, before the bytes after
\* the token and the read
C29_Witness ==
    /\ BetweenItems
    /\ Len(queue) >= 3
    /\ queue[1].kind = "value"
    /\ queue[1].it.merge
    /\ hist.parts > 0

=============================================================================
